---- MODULE Spec2Model ----
(***************************************************************************)
(* Code indexing and retrieval pipeline of claude-helper-agent:            *)
(* the chunker (src/src/lib/chunker.ts), the indexer                       *)
(* (src/src/handlers/index.ts), the embedding client and vector store      *)
(* manager (src/src/lib/embeddings.ts), project deletion                   *)
(* (src/src/handlers/projects.ts) and the retriever                        *)
(* (src/src/handlers/query.ts).                                            *)
(*                                                                         *)
(* Strings.  A JavaScript string is a sequence of atoms.  An atom is a     *)
(* record [kind, len]: the newline character (kind "nl", len 1) or a run   *)
(* of len characters holding no newline: whitespace only ("ws"), text      *)
(* matching none of the chunker's patterns ("text"), or text matching the  *)
(* boundary / heading pattern of the file's language ("head").             *)
(***************************************************************************)
EXTENDS Integers, Sequences, FiniteSets, TLC

VARIABLES
    cpc,        \* chunker harness: "idle", "chunked", "read"
    cfile,      \* chunker harness: the (content, filePath) given to chunkFile
    cchunks,    \* chunker harness: the chunk rows stored for the file
    cread,      \* chunker harness: what readFileTool returned
    projects,   \* relational store: rows of table projects
    files,      \* relational store: rows of table files
    chunks,     \* relational store: rows of table chunks
    conversations, \* relational store: rows of table conversations
    messages,   \* relational store: rows of table messages
    vectors,    \* vector index: the records, keyed by id
    kv,         \* key-value cache: today's embedding counter and LLM counter
    embedded,   \* the texts the embedding service has embedded today
    now,        \* Date.now(), in milliseconds
    nextId,     \* the ids generateId() has handed out so far
    nreq,       \* the requests started so far
    req         \* the requests in flight, by slot: locals and position

chunkVars == <<cpc, cfile, cchunks, cread>>

dbVars == <<projects, files, chunks, conversations, messages>>

vars == <<cpc, cfile, cchunks, cread, projects, files, chunks, conversations, messages, vectors, kv, embedded, now, nextId, nreq, req>>

Null == [null |-> TRUE]

\* a request body that is not JSON; a body names the fields it was given
Unparseable == [unparseable |-> TRUE]

Max(a, b) == IF a >= b THEN a ELSE b

Min(a, b) == IF a <= b THEN a ELSE b

(***************************************************************************)
(* String primitives                                                       *)
(***************************************************************************)
NL == [kind |-> "nl", len |-> 1]

Run(k, n) == [kind |-> k, len |-> n]

RECURSIVE StrLen(_)
\* s.length
StrLen(s) == IF s = <<>> THEN 0 ELSE Head(s).len + StrLen(Tail(s))

\* s.trim().length > 0: some character of s is not whitespace
TrimNonEmpty(s) == \E i \in 1..Len(s) : s[i].kind \notin {"nl", "ws"}

\* the numbers of S, ascending: the i-th is the one with i - 1 smaller ones
SortedSeq(S) ==
    [i \in 1..Cardinality(S) |-> CHOOSE x \in S : Cardinality({ y \in S : y < x }) = i - 1]

\* s.split('\n'): never empty; "" splits into [""]; the pieces between the newlines
Split(s) ==
    LET cuts == SortedSeq({0, Len(s) + 1} \cup { i \in 1..Len(s) : s[i].kind = "nl" })
    IN  [j \in 1..(Len(cuts) - 1) |-> SubSeq(s, cuts[j] + 1, cuts[j + 1] - 1)]

RECURSIVE Join(_)
\* lines.join('\n'): [] joins to ""
Join(lines) ==
    IF lines = <<>> THEN <<>>
    ELSE IF Len(lines) = 1 THEN lines[1]
    ELSE lines[1] \o <<NL>> \o Join(Tail(lines))

\* a.slice(from, to), 0-based, to exclusive
Slice(a, from, to) == SubSeq(a, Min(from, Len(a)) + 1, Min(to, Len(a)))

\* pattern.test(line.trim()) for a boundary pattern of the language, and
\* headerPattern.test(line): the line's first non-blank run is a "head" run
MatchesPattern(line) ==
    \E i \in 1..Len(line) :
        /\ line[i].kind = "head"
        /\ \A j \in 1..(i - 1) : line[j].kind = "ws"

\* headerPattern is anchored at the start of the untrimmed line
MatchesHeader(line) == line # <<>> /\ line[1].kind = "head"

(***************************************************************************)
(* Paths.  A path is a sequence of atoms too: names, "/" and ".".          *)
(***************************************************************************)
RECURSIVE SplitOn(_, _)
\* path.split(sep)
SplitOn(p, sep) ==
    IF p = <<>> THEN << <<>> >>
    ELSE LET rest == SplitOn(Tail(p), sep)
         IN  IF Head(p) = sep
             THEN << <<>> >> \o rest
             ELSE << <<Head(p)>> \o Head(rest) >> \o Tail(rest)

\* s.toLowerCase() on a name of the model
LowerName(n) ==
    CASE n = "MD" -> "md"
      [] n = "TS" -> "ts"
      [] OTHER -> n

toLowerCase(part) == [i \in 1..Len(part) |-> LowerName(part[i])]

getFileExtension(path) ==
    LET parts == SplitOn(path, ".")
    IN  IF Len(parts) > 1 THEN toLowerCase(parts[Len(parts)]) ELSE <<>>

codeExtensions ==
    {"ts", "tsx", "js", "jsx", "py", "go", "rs", "java", "c", "cpp", "h",
     "hpp", "sql", "sh", "bash"}

markdownExtensions == {"md", "mdx"}

configExtensions == {"json", "yaml", "yml", "toml", "xml", "env", "ini", "cfg"}

\* the extension is one of the listed names
ExtIn(ext, names) == Len(ext) = 1 /\ ext[1] \in names

getFileType(path) ==
    LET ext == getFileExtension(path)
    IN  IF ExtIn(ext, codeExtensions) THEN "code"
        ELSE IF ExtIn(ext, markdownExtensions) THEN "markdown"
        ELSE IF ExtIn(ext, configExtensions) THEN "config"
        ELSE "text"

(***************************************************************************)
(* Chunker                                                                 *)
(***************************************************************************)
MAX_CHUNK_TOKENS == 512

OVERLAP_LINES == 3

APPROX_CHARS_PER_TOKEN == 4

MAX_CHUNK_CHARS == MAX_CHUNK_TOKENS * APPROX_CHARS_PER_TOKEN

\* the least number of lines between two accepted boundaries is above this
BOUNDARY_GAP == 5

\* a chunk whose end_line is the 0-based index of its last line
MkChunkEndIndex(opts, content, startLine, endLine, chunkType) ==
    [file_id |-> opts.fileId, project_id |-> opts.projectId,
     content |-> content, start_line |-> startLine, end_line |-> endLine - 1,
     chunk_type |-> chunkType]

MkChunk(opts, content, startLine, endLine, chunkType) ==
    [file_id |-> opts.fileId, project_id |-> opts.projectId,
     content |-> content, start_line |-> startLine, end_line |-> endLine,
     chunk_type |-> chunkType]

RECURSIVE chunkByLinesLoop(_, _, _, _, _, _, _)
\* the for loop of chunkByLines, from index i (0-based)
chunkByLinesLoop(lines, opts, chunkType, i, currentChunk, chunkStartLine, emitted) ==
    IF i >= Len(lines) THEN emitted
    ELSE
      LET cur == Append(currentChunk, lines[i + 1])
      IN  IF StrLen(Join(cur)) >= MAX_CHUNK_CHARS \/ i = Len(lines) - 1
          THEN LET chunkContent == Join(cur)
                   pushed == IF TrimNonEmpty(chunkContent)
                             THEN Append(emitted, MkChunk(opts, chunkContent, chunkStartLine + 1, i + 1, chunkType))
                             ELSE emitted
                   overlapStart == Max(0, Len(cur) - OVERLAP_LINES)
                   next == Slice(cur, overlapStart, Len(cur))
               IN  chunkByLinesLoop(lines, opts, chunkType, i + 1, next, i - Len(next) + 1, pushed)
          ELSE chunkByLinesLoop(lines, opts, chunkType, i + 1, cur, chunkStartLine, emitted)

chunkByLines(lines, opts, chunkType) == chunkByLinesLoop(lines, opts, chunkType, 0, <<>>, 0, <<>>)

RECURSIVE splitLargeChunkNoOverlapStart(_, _, _, _, _, _, _)
\* a splitLargeChunk that numbers the next window from the line after the last one
splitLargeChunkNoOverlapStart(lines, startLine, opts, i, currentChunk, chunkStartLine, emitted) ==
    IF i >= Len(lines)
    THEN IF Len(currentChunk) > 0 /\ TrimNonEmpty(Join(currentChunk))
         THEN Append(emitted, MkChunk(opts, Join(currentChunk), chunkStartLine + 1, startLine + Len(lines), "code"))
         ELSE emitted
    ELSE
      LET cur == Append(currentChunk, lines[i + 1])
      IN  IF StrLen(Join(cur)) >= MAX_CHUNK_CHARS
          THEN LET pushed == Append(emitted, MkChunk(opts, Join(cur), chunkStartLine + 1, startLine + i + 1, "code"))
                   overlapStart == Max(0, Len(cur) - OVERLAP_LINES)
                   next == Slice(cur, overlapStart, Len(cur))
               IN  splitLargeChunkNoOverlapStart(lines, startLine, opts, i + 1, next, startLine + i + 1, pushed)
          ELSE splitLargeChunkNoOverlapStart(lines, startLine, opts, i + 1, cur, chunkStartLine, emitted)

RECURSIVE splitLargeChunkFixedOverlap(_, _, _, _, _, _, _)
\* a splitLargeChunk that numbers the next window as if OVERLAP_LINES lines were carried
splitLargeChunkFixedOverlap(lines, startLine, opts, i, currentChunk, chunkStartLine, emitted) ==
    IF i >= Len(lines)
    THEN IF Len(currentChunk) > 0 /\ TrimNonEmpty(Join(currentChunk))
         THEN Append(emitted, MkChunk(opts, Join(currentChunk), chunkStartLine + 1, startLine + Len(lines), "code"))
         ELSE emitted
    ELSE
      LET cur == Append(currentChunk, lines[i + 1])
      IN  IF StrLen(Join(cur)) >= MAX_CHUNK_CHARS
          THEN LET pushed == Append(emitted, MkChunk(opts, Join(cur), chunkStartLine + 1, startLine + i + 1, "code"))
                   overlapStart == Max(0, Len(cur) - OVERLAP_LINES)
                   next == Slice(cur, overlapStart, Len(cur))
               IN  splitLargeChunkFixedOverlap(lines, startLine, opts, i + 1, next, startLine + i - OVERLAP_LINES + 1, pushed)
          ELSE splitLargeChunkFixedOverlap(lines, startLine, opts, i + 1, cur, chunkStartLine, emitted)

RECURSIVE splitLargeChunkLoop(_, _, _, _, _, _, _)
\* splitLargeChunk from index i (0-based), the remaining lines included
splitLargeChunkLoop(lines, startLine, opts, i, currentChunk, chunkStartLine, emitted) ==
    IF i >= Len(lines)
    THEN IF Len(currentChunk) > 0 /\ TrimNonEmpty(Join(currentChunk))
         THEN Append(emitted, MkChunk(opts, Join(currentChunk), chunkStartLine + 1, startLine + Len(lines), "code"))
         ELSE emitted
    ELSE
      LET cur == Append(currentChunk, lines[i + 1])
      IN  IF StrLen(Join(cur)) >= MAX_CHUNK_CHARS
          THEN LET pushed == Append(emitted, MkChunk(opts, Join(cur), chunkStartLine + 1, startLine + i + 1, "code"))
                   overlapStart == Max(0, Len(cur) - OVERLAP_LINES)
                   next == Slice(cur, overlapStart, Len(cur))
               IN  splitLargeChunkLoop(lines, startLine, opts, i + 1, next, startLine + i - Len(next) + 1, pushed)
          ELSE splitLargeChunkLoop(lines, startLine, opts, i + 1, cur, chunkStartLine, emitted)

splitLargeChunk(lines, startLine, opts) == splitLargeChunkLoop(lines, startLine, opts, 0, <<>>, startLine, <<>>)

\* the extensions detectCodeBoundaries has patterns for
patternExtensions == {"ts", "tsx", "js", "jsx", "py", "go", "rs"}

\* filePath.split('.').pop()?.toLowerCase() names a language with patterns
HasLangPatterns(filePath) ==
    LET parts == SplitOn(filePath, ".")
    IN  ExtIn(toLowerCase(parts[Len(parts)]), patternExtensions)

RECURSIVE detectLoopAtLeast(_, _, _, _)
\* a loop that accepts a candidate BOUNDARY_GAP lines after the last boundary
detectLoopAtLeast(lines, hasPatterns, i, boundaries) ==
    IF i >= Len(lines) THEN boundaries
    ELSE IF hasPatterns /\ MatchesPattern(lines[i + 1])
              /\ i - boundaries[Len(boundaries)] >= BOUNDARY_GAP
         THEN detectLoopAtLeast(lines, hasPatterns, i + 1, Append(boundaries, i))
         ELSE detectLoopAtLeast(lines, hasPatterns, i + 1, boundaries)

RECURSIVE detectLoop(_, _, _, _)
detectLoop(lines, hasPatterns, i, boundaries) ==
    IF i >= Len(lines) THEN boundaries
    ELSE IF hasPatterns /\ MatchesPattern(lines[i + 1])
              /\ i - boundaries[Len(boundaries)] > BOUNDARY_GAP
         THEN detectLoop(lines, hasPatterns, i + 1, Append(boundaries, i))
         ELSE detectLoop(lines, hasPatterns, i + 1, boundaries)

detectCodeBoundaries(lines, filePath) == detectLoop(lines, HasLangPatterns(filePath), 0, <<0>>)

RECURSIVE chunkCodeLoop(_, _, _, _, _)
\* the loop of chunkCode over the boundaries, from index i (1-based here)
chunkCodeLoop(lines, boundaries, opts, i, emitted) ==
    IF i > Len(boundaries) THEN emitted
    ELSE
      LET start == boundaries[i]
          end == IF i + 1 <= Len(boundaries) THEN boundaries[i + 1] ELSE Len(lines)
          chunkLines == Slice(lines, start, end)
          chunkContent == Join(chunkLines)
          pushed == IF StrLen(chunkContent) > MAX_CHUNK_CHARS
                    THEN emitted \o splitLargeChunk(chunkLines, start, opts)
                    ELSE IF TrimNonEmpty(chunkContent)
                    THEN Append(emitted, MkChunk(opts, chunkContent, start + 1, end, "code"))
                    ELSE emitted
      IN  chunkCodeLoop(lines, boundaries, opts, i + 1, pushed)

chunkCode(content, opts) ==
    LET lines == Split(content)
        boundaries == detectCodeBoundaries(lines, opts.filePath)
    IN  IF Len(boundaries) > 0
        THEN chunkCodeLoop(lines, boundaries, opts, 1, <<>>)
        ELSE chunkByLines(lines, opts, "code")

RECURSIVE chunkMarkdownEndsAtHeader(_, _, _, _, _, _)
\* a chunkMarkdown whose sections end on the header line that closes them
chunkMarkdownEndsAtHeader(lines, opts, i, currentChunkStart, currentChunkLines, emitted) ==
    IF i >= Len(lines)
    THEN IF Len(currentChunkLines) > 0 /\ TrimNonEmpty(Join(currentChunkLines))
         THEN Append(emitted, MkChunk(opts, Join(currentChunkLines), currentChunkStart + 1, Len(lines), "markdown"))
         ELSE emitted
    ELSE
      LET line == lines[i + 1]
      IN  IF MatchesHeader(line) /\ Len(currentChunkLines) > 0
          THEN LET chunkContent == Join(currentChunkLines)
                   pushed == IF TrimNonEmpty(chunkContent)
                             THEN Append(emitted, MkChunk(opts, chunkContent, currentChunkStart + 1, i + 1, "markdown"))
                             ELSE emitted
               IN  chunkMarkdownEndsAtHeader(lines, opts, i + 1, i, <<line>>, pushed)
          ELSE LET cur == Append(currentChunkLines, line)
               IN  IF StrLen(Join(cur)) > MAX_CHUNK_CHARS
                   THEN LET splitPoint == Len(cur) \div 2
                            firstHalf == Slice(cur, 0, splitPoint)
                            secondHalf == Slice(cur, splitPoint, Len(cur))
                            pushed == Append(emitted, MkChunk(opts, Join(firstHalf), currentChunkStart + 1, currentChunkStart + splitPoint, "markdown"))
                        IN  chunkMarkdownEndsAtHeader(lines, opts, i + 1, currentChunkStart + splitPoint, secondHalf, pushed)
                   ELSE chunkMarkdownEndsAtHeader(lines, opts, i + 1, currentChunkStart, cur, emitted)

RECURSIVE chunkMarkdownLoop(_, _, _, _, _, _)
\* chunkMarkdown from index i (0-based), the last chunk included
chunkMarkdownLoop(lines, opts, i, currentChunkStart, currentChunkLines, emitted) ==
    IF i >= Len(lines)
    THEN IF Len(currentChunkLines) > 0 /\ TrimNonEmpty(Join(currentChunkLines))
         THEN Append(emitted, MkChunk(opts, Join(currentChunkLines), currentChunkStart + 1, Len(lines), "markdown"))
         ELSE emitted
    ELSE
      LET line == lines[i + 1]
      IN  IF MatchesHeader(line) /\ Len(currentChunkLines) > 0
          THEN LET chunkContent == Join(currentChunkLines)
                   pushed == IF TrimNonEmpty(chunkContent)
                             THEN Append(emitted, MkChunk(opts, chunkContent, currentChunkStart + 1, i, "markdown"))
                             ELSE emitted
               IN  chunkMarkdownLoop(lines, opts, i + 1, i, <<line>>, pushed)
          ELSE LET cur == Append(currentChunkLines, line)
               IN  IF StrLen(Join(cur)) > MAX_CHUNK_CHARS
                   THEN LET splitPoint == Len(cur) \div 2
                            firstHalf == Slice(cur, 0, splitPoint)
                            secondHalf == Slice(cur, splitPoint, Len(cur))
                            pushed == Append(emitted, MkChunk(opts, Join(firstHalf), currentChunkStart + 1, currentChunkStart + splitPoint, "markdown"))
                        IN  chunkMarkdownLoop(lines, opts, i + 1, currentChunkStart + splitPoint, secondHalf, pushed)
                   ELSE chunkMarkdownLoop(lines, opts, i + 1, currentChunkStart, cur, emitted)

chunkMarkdown(content, opts) == chunkMarkdownLoop(Split(content), opts, 0, 0, <<>>, <<>>)

chunkConfig(content, opts) ==
    IF StrLen(content) <= MAX_CHUNK_CHARS
    THEN << MkChunk(opts, content, 1, Len(Split(content)), "config") >>
    ELSE chunkByLines(Split(content), opts, "config")

chunkText(content, opts) == chunkByLines(Split(content), opts, "text")

chunkFile(content, opts) ==
    LET fileType == getFileType(opts.filePath)
    IN  CASE fileType = "markdown" -> chunkMarkdown(content, opts)
          [] fileType = "code" -> chunkCode(content, opts)
          [] fileType = "config" -> chunkConfig(content, opts)
          [] OTHER -> chunkText(content, opts)

(***************************************************************************)
(* readFileTool (src/src/lib/embeddings.ts): the chunk rows of one file    *)
(* ORDER BY start_line, joined with newlines.  Rows with equal start_line  *)
(* come back in an order the store chooses.                                *)
(***************************************************************************)
RECURSIVE SortedOrders(_, _)
\* the orders of the rows with indices S that ORDER BY start_line allows
SortedOrders(rows, S) ==
    IF S = {} THEN { <<>> }
    ELSE LET least == { i \in S : \A j \in S : rows[i].start_line <= rows[j].start_line }
         IN  UNION { { <<rows[i]>> \o t : t \in SortedOrders(rows, S \ {i}) } : i \in least }

\* what readFileTool returns for the rows in the order the store returned them
readFileResult(ordered) ==
    IF Len(ordered) = 0 THEN Null
    ELSE [content |-> Join([i \in 1..Len(ordered) |-> ordered[i].content]),
          lineCount |-> ordered[Len(ordered)].end_line]

(***************************************************************************)
(* Bounded inputs of chunkFile                                             *)
(***************************************************************************)
MaxLines == 4

MaxLongLines == 7

ShortLen == 10

HeadLen == 12

EmptyLine == <<>>

ShortLine == << Run("text", ShortLen) >>

\* two of these joined reach the budget
HalfLine == << Run("text", MAX_CHUNK_CHARS \div 2) >>

\* a single line above the budget
HugeLine == << Run("text", MAX_CHUNK_CHARS + 1) >>

HeadLine == << Run("head", HeadLen) >>

LineKinds == {EmptyLine, ShortLine, HalfLine, HugeLine, HeadLine}

LongFileLineKinds == {ShortLine, HugeLine, HeadLine}

SeqsOf(S, lo, hi) == UNION { [1..n -> S] : n \in lo..hi }

\* every file of at most MaxLines lines, as lists of lines
ShortFiles == SeqsOf(LineKinds, 1, MaxLines)

\* longer code files, long enough for a second boundary
LongFiles == SeqsOf(LongFileLineKinds, MaxLines + 1, MaxLongLines)

TsPath == <<"a", ".", "ts">>

JavaPath == <<"b", ".", "java">>

MdPath == <<"c", ".", "MD">>

JsonPath == <<"d", ".", "json">>

TxtPath == <<"e", ".", "txt">>

ChunkPaths == {TsPath, JavaPath, MdPath, JsonPath, TxtPath}

\* a section of ten lines: its heading and nine lines of text
SectionOfTen ==
    <<HeadLine, ShortLine, ShortLine, ShortLine, ShortLine, ShortLine, ShortLine, ShortLine, ShortLine, ShortLine>>

\* the markdown file of three sections of ten lines
ThreeSections == SectionOfTen \o SectionOfTen \o SectionOfTen

ChunkInputs ==
    { [content |-> Join(ls), path |-> p] : ls \in ShortFiles, p \in ChunkPaths }
      \cup { [content |-> Join(ls), path |-> TsPath] : ls \in LongFiles }
      \cup { [content |-> Join(ThreeSections), path |-> MdPath] }

(***************************************************************************)
(* Bounded inputs of handleIndex                                           *)
(***************************************************************************)
MaxRequests == 2

MaxFiles == 2

ProjectPath == <<"home", "/", "proj">>

DistPath == <<"dist", "/", "c", ".", "ts">>

\* one line: one chunk
OneChunkContent == Join(<<ShortLine>>)

\* three lines that split into two chunks
TwoChunkContent == Join(<<HalfLine, HalfLine, ShortLine>>)

FileInputs ==
    { [path |-> TsPath, content |-> OneChunkContent],
      [path |-> TsPath, content |-> TwoChunkContent],
      [path |-> MdPath, content |-> OneChunkContent],
      [path |-> DistPath, content |-> OneChunkContent] }

FileLists == SeqsOf(FileInputs, 1, MaxFiles)

IndexBodies ==
    { [given |-> {"project_path", "files"}, project_path |-> ProjectPath, force |-> f, append |-> a, files |-> fl] :
          f \in BOOLEAN, a \in BOOLEAN, fl \in FileLists }
      \cup { Unparseable,
             [given |-> {}, project_path |-> <<>>, force |-> FALSE, append |-> FALSE, files |-> <<>>],
             [given |-> {"project_path"}, project_path |-> ProjectPath, force |-> FALSE, append |-> FALSE, files |-> <<>>],
             [given |-> {"project_path", "files"}, project_path |-> ProjectPath, force |-> FALSE, append |-> FALSE, files |-> <<>>] }

(***************************************************************************)
(* Shared state: relational store, vector index, key-value cache, clock    *)
(***************************************************************************)
sysVars == <<projects, files, chunks, conversations, messages, vectors, kv, embedded, now, nextId, nreq, req>>

DAILY_EMBEDDING_LIMIT == 7000

\* BATCH_SIZE of embeddings.ts: vectors per upsert
BATCH_SIZE == 100

\* vector ids per deleteByIds call
DELETE_BATCH_SIZE == 100

EMBEDDING_BATCH_SIZE == 50

\* statements per DB.batch of handleIndex
D1_BATCH_SIZE == 100

\* a project indexed less than this many seconds ago is not re-indexed
RECENT_SECONDS == 3600

\* the request slots: one request at a time
Slots == {1}

\* the request slots when two requests may be in flight together
Workers == {1, 2}

Idle == [pc |-> "idle", kind |-> "none"]

\* a finished request: its response and what the run did
Done(kind, code, msg, info) == [pc |-> "done", kind |-> kind, code |-> code, msg |-> msg, info |-> info]

\* SQL NULL in an integer column
SqlNull == 0 - 1

\* Math.floor(Date.now() / 1000)
NowSeconds(nowMs) == nowMs \div 1000

SeqRange(q) == { q[i] : i \in 1..Len(q) }

\* UPDATE projects SET ... WHERE id = ?
UpdateProject(rows, id, fields) == { IF p.id = id THEN fields @@ p ELSE p : p \in rows }

(***************************************************************************)
(* utils: paths                                                            *)
(***************************************************************************)
\* path.includes(p) for a name p: p is one of the path's names
Includes(path, p) == \E i \in 1..Len(path) : path[i] = p

\* path.includes(s) for s spanning several atoms
IncludesSeq(path, q) ==
    \E i \in 1..Len(path) : i + Len(q) - 1 <= Len(path) /\ SubSeq(path, i, i + Len(q) - 1) = q

indexableExtensions ==
    {"ts", "tsx", "js", "jsx", "py", "go", "rs", "java", "c", "cpp", "h", "hpp",
     "sql", "sh", "bash", "md", "mdx", "json", "yaml", "yml", "toml", "txt"}

skipPatterns ==
    {"node_modules", ".git", "dist", "build", ".next", "__pycache__",
     "venv", ".venv", "target", ".idea", ".vscode", "coverage",
     ".wrangler", ".turbo", ".cache"}

lockFiles == { <<"package-lock", ".", "json">>, <<"yarn", ".", "lock">>, <<"pnpm-lock", ".", "yaml">> }

shouldIndexFile(path) ==
    IF \E p \in skipPatterns : Includes(path, p) THEN FALSE
    ELSE IF \E q \in lockFiles : IncludesSeq(path, q) THEN FALSE
    ELSE ExtIn(getFileExtension(path), indexableExtensions)

extractProjectName(path) ==
    LET trimmed == IF path # <<>> /\ path[Len(path)] = "/" THEN SubSeq(path, 1, Len(path) - 1) ELSE path
        parts == SplitOn(trimmed, "/")
        last == parts[Len(parts)]
    IN  IF last = <<>> THEN <<"unknown">> ELSE last

\* hashContent: SHA-256 of the content, taken as collision-free
hashContent(content) == [sha256 |-> content]

(***************************************************************************)
(* Embedding client: generateEmbeddings                                    *)
(***************************************************************************)
\* a key the cache does not hold
KvMissing == <<>>

\* String(count), as the cache stores it
KvString(count) == <<count>>

\* parseInt(await env.KV.get(key) || '0')
KvCount(entry) == IF entry = KvMissing THEN 0 ELSE entry[1]

\* the quota check refusing a batch that reaches the limit exactly
EmbeddingQuotaReached(currentCount, n) == currentCount + n >= DAILY_EMBEDDING_LIMIT

\* a quota check that looks only at the count so far
EmbeddingQuotaLax(currentCount, n) == currentCount > DAILY_EMBEDDING_LIMIT

\* the quota check of generateEmbeddings
EmbeddingQuotaExceeded(currentCount, n) == currentCount + n > DAILY_EMBEDDING_LIMIT

\* the counter raised in the cache itself, whatever the call read before
EmbeddingCountIncremented(currentCount, n) == KvCount(kv.embedding) + n

\* the value generateEmbeddings writes back to the counter
EmbeddingCountAfter(currentCount, n) == currentCount + n

(***************************************************************************)
(* handleIndex: local computations                                         *)
(***************************************************************************)
\* the recency test with Date.now() left in milliseconds
IsRecentMillis(lastIndexed, nowMs) ==
    /\ lastIndexed # SqlNull
    /\ lastIndexed # 0
    /\ nowMs - lastIndexed < RECENT_SECONDS

\* lastIndexed && Date.now() / 1000 - lastIndexed < 3600
IsRecent(lastIndexed, nowMs) ==
    /\ lastIndexed # SqlNull
    /\ lastIndexed # 0
    /\ nowMs - lastIndexed * 1000 < RECENT_SECONDS * 1000

\* arr.filter(pred), kept being the elements pred accepts
Filter(q, kept) ==
    LET F[i \in 0..Len(q)] ==
          IF i = 0 THEN <<>>
          ELSE IF q[i] \in kept THEN Append(F[i - 1], q[i]) ELSE F[i - 1]
    IN  F[Len(q)]

\* body.files filtered by shouldIndexFile only, the paths present ignored
FilesToProcessUnfiltered(bodyFiles, appendMode, existingFilePaths) ==
    Filter(bodyFiles, { f \in SeqRange(bodyFiles) : shouldIndexFile(f.path) })

\* body.files filtered by shouldIndexFile and, in append mode, by the paths present
FilesToProcess(bodyFiles, appendMode, existingFilePaths) ==
    LET eligible == Filter(bodyFiles, { f \in SeqRange(bodyFiles) : shouldIndexFile(f.path) })
    IN  IF appendMode /\ Cardinality(existingFilePaths) > 0
        THEN Filter(eligible, { f \in SeqRange(eligible) : f.path \notin existingFilePaths })
        ELSE eligible

\* assignChunkIds: one generateId() per chunk, the first being idc + 1
assignChunkIds(cs, idc) == [i \in 1..Len(cs) |-> [id |-> idc + i] @@ cs[i]]

RECURSIVE ProcessFiles(_, _, _, _, _)
\* the loop over filesToProcess: a file id, the hash, the chunks with ids
ProcessFiles(todo, projectId, idc, fileRecords, allChunks) ==
    IF todo = <<>> THEN [fileRecords |-> fileRecords, allChunks |-> allChunks, nextId |-> idc]
    ELSE LET file == Head(todo)
             fileId == idc + 1
             cs == assignChunkIds(chunkFile(file.content, [fileId |-> fileId, projectId |-> projectId, filePath |-> file.path]), fileId)
             rec == [id |-> fileId, project_id |-> projectId, relative_path |-> file.path,
                     content_hash |-> hashContent(file.content), chunk_count |-> Len(cs)]
         IN  ProcessFiles(Tail(todo), projectId, fileId + Len(cs), Append(fileRecords, rec), allChunks \o cs)

\* the vector record handleIndex builds for an embedded chunk
VectorOf(chunk, projectId, fileRecords) ==
    LET found == { f \in SeqRange(fileRecords) : f.id = chunk.file_id }
        path == IF found = {} THEN <<>> ELSE (CHOOSE f \in found : TRUE).relative_path
    IN  [id |-> chunk.id,
         metadata |-> [chunk_id |-> chunk.id, project_id |-> projectId, file_path |-> path,
                       file_type |-> getFileType(path),
                       start_line |-> chunk.start_line, end_line |-> chunk.end_line]]

\* status written at the end of the run
FinalStatus(errors) == IF errors = 0 THEN "ready" ELSE "error"

\* file_count written at the end of the run, the increment of append forgotten
FinalFileCountReplaced(appendMode, oldCount, processed) == processed

\* file_count written at the end of the run
FinalFileCount(appendMode, oldCount, processed) == IF appendMode THEN oldCount + processed ELSE processed

(***************************************************************************)
(* handleIndex (src/src/handlers/index.ts), one action per awaited call    *)
(***************************************************************************)
ProjectRows(rows, projectId) == { x \in rows : x.project_id = projectId }

\* the locals of a running handleIndex
IndexRun(body, pc, mode, projectId, pre) ==
    [pc |-> pc, kind |-> "index", body |-> body, appendMode |-> (body.append = TRUE),
     mode |-> mode, projectId |-> projectId, existingFilePaths |-> {},
     fileRecords |-> <<>>, allChunks |-> <<>>, i |-> 0, chunkIds |-> <<>>,
     vectorResults |-> <<>>, inserted |-> 0, errors |-> 0,
     emb |-> [n |-> 0, currentCount |-> 0],
     embedErrors |-> 0, deleteErrors |-> 0, skipped |-> {}, pre |-> pre]

\* what a finished handleIndex run did
IndexInfo(q) ==
    [mode |-> q.mode, projectId |-> q.projectId, body |-> q.body, pre |-> q.pre,
     processed |-> Len(q.fileRecords), skipped |-> q.skipped,
     embedErrors |-> q.embedErrors, errors |-> q.errors, deleteErrors |-> q.deleteErrors]

\* a request answered before any run began
EntryInfo(mode, body) == [mode |-> mode, body |-> body]

\* the entry of a handler that refuses a project another run has marked indexing
IndexEntryExclusive(body, rows, nowMs, pre) ==
    IF body = Unparseable THEN Done("index", 500, "SyntaxError", EntryInfo("invalid", body))
    ELSE IF "project_path" \notin body.given \/ body.project_path = <<>>
    THEN Done("index", 400, "project_path is required", EntryInfo("invalid", body))
    ELSE IF "files" \notin body.given \/ Len(body.files) = 0
    THEN Done("index", 400, "files array is required", EntryInfo("invalid", body))
    ELSE
      LET found == { p \in rows : p.path = body.project_path }
      IN  IF found = {} THEN IndexRun(body, "create_project", "new", SqlNull, pre)
          ELSE
            LET project == CHOOSE p \in found : TRUE
            IN  IF project.status = "indexing"
                THEN Done("index", 409, "Indexing in progress", EntryInfo("busy", body))
                ELSE IF body.append = TRUE THEN IndexRun(body, "append_select", "append", project.id, pre)
                ELSE IF ~body.force
                THEN IF IsRecent(project.last_indexed_at, nowMs)
                     THEN Done("index", 200, "Project was indexed recently", EntryInfo("recent", body))
                     ELSE IndexRun(body, "delete_select", "stale", project.id, pre)
                ELSE IndexRun(body, "delete_select", "force", project.id, pre)

\* a mode dispatch that looks at force before append
IndexEntryForceFirst(body, rows, nowMs, pre) ==
    IF body = Unparseable THEN Done("index", 500, "SyntaxError", EntryInfo("invalid", body))
    ELSE IF "project_path" \notin body.given \/ body.project_path = <<>>
    THEN Done("index", 400, "project_path is required", EntryInfo("invalid", body))
    ELSE IF "files" \notin body.given \/ Len(body.files) = 0
    THEN Done("index", 400, "files array is required", EntryInfo("invalid", body))
    ELSE
      LET found == { p \in rows : p.path = body.project_path }
      IN  IF found = {} THEN IndexRun(body, "create_project", "new", SqlNull, pre)
          ELSE
            LET project == CHOOSE p \in found : TRUE
            IN  IF body.force THEN IndexRun(body, "delete_select", "force", project.id, pre)
                ELSE IF body.append = TRUE THEN IndexRun(body, "append_select", "append", project.id, pre)
                ELSE IF IsRecent(project.last_indexed_at, nowMs)
                     THEN Done("index", 200, "Project was indexed recently", EntryInfo("recent", body))
                     ELSE IndexRun(body, "delete_select", "stale", project.id, pre)

\* lines 24-100: body, validation, SELECT of the project, choice of the mode
IndexEntry(body, rows, nowMs, pre) ==
    IF body = Unparseable THEN Done("index", 500, "SyntaxError", EntryInfo("invalid", body))
    ELSE IF "project_path" \notin body.given \/ body.project_path = <<>>
    THEN Done("index", 400, "project_path is required", EntryInfo("invalid", body))
    ELSE IF "files" \notin body.given \/ Len(body.files) = 0
    THEN Done("index", 400, "files array is required", EntryInfo("invalid", body))
    ELSE
      LET found == { p \in rows : p.path = body.project_path }
      IN  IF found = {} THEN IndexRun(body, "create_project", "new", SqlNull, pre)
          ELSE
            LET project == CHOOSE p \in found : TRUE
            IN  IF body.append = TRUE THEN IndexRun(body, "append_select", "append", project.id, pre)
                ELSE IF ~body.force
                THEN IF IsRecent(project.last_indexed_at, nowMs)
                     THEN Done("index", 200, "Project was indexed recently", EntryInfo("recent", body))
                     ELSE IndexRun(body, "delete_select", "stale", project.id, pre)
                ELSE IndexRun(body, "delete_select", "force", project.id, pre)

\* lines 102-169: the files to process, their records and chunks
Prepare(q, idc) ==
    LET todo == FilesToProcess(q.body.files, q.appendMode, q.existingFilePaths)
        skipped == SeqRange(FilesToProcess(q.body.files, FALSE, {})) \ SeqRange(todo)
    IN  IF Len(todo) = 0
        THEN [q |-> [q EXCEPT !.pc = "mark_ready", !.skipped = skipped], nextId |-> idc]
        ELSE LET pf == ProcessFiles(todo, q.projectId, idc, <<>>, <<>>)
             IN  [q |-> [q EXCEPT !.pc = "insert_files", !.fileRecords = pf.fileRecords,
                                  !.allChunks = pf.allChunks, !.i = 0, !.skipped = skipped],
                  nextId |-> pf.nextId]

\* where handleIndex goes once the statements of a loop are done
AfterInsertFiles(q) == IF Len(q.allChunks) > 0 THEN "insert_chunks" ELSE "finalize"

AfterEmbedding(q) == IF Len(q.vectorResults) > 0 THEN "upsert" ELSE "finalize"

SetReq(r, q) == req' = [req EXCEPT ![r] = q]

\* what the request found in the store when it started
PreState(body) ==
    LET found == { p \in projects : p.path = body.project_path }
    IN  [files |-> files, chunks |-> chunks, vectors |-> vectors,
         file_count |-> IF found = {} THEN 0 ELSE (CHOOSE p \in found : TRUE).file_count]

\* an index request arrives, the limit-th at most, its body one of bodies
IndexBegin(r, bodies, limit) ==
    /\ req[r].pc \in {"idle", "done"}
    /\ nreq < limit
    /\ nreq' = nreq + 1
    /\ \E body \in bodies :
         SetReq(r, IndexEntry(body, projects, now, IF body = Unparseable THEN Null ELSE PreState(body)))
    /\ UNCHANGED <<chunkVars, embedded, dbVars, vectors, kv, now, nextId>>

IndexStart(r) == IndexBegin(r, IndexBodies, MaxRequests)

AppendSelect(r) ==
    /\ req[r].pc = "append_select"
    /\ SetReq(r, [req[r] EXCEPT !.pc = "append_status",
                     !.existingFilePaths = { f.relative_path : f \in ProjectRows(files, req[r].projectId) }])
    /\ UNCHANGED <<chunkVars, embedded, dbVars, vectors, kv, now, nextId, nreq>>

AppendStatus(r) ==
    /\ req[r].pc = "append_status"
    /\ projects' = UpdateProject(projects, req[r].projectId, [status |-> "indexing"])
    /\ LET pr == Prepare(req[r], nextId)
       IN  SetReq(r, pr.q) /\ nextId' = pr.nextId
    /\ UNCHANGED <<chunkVars, embedded, files, chunks, conversations, messages, vectors, kv, now, nreq>>

\* deleteProjectVectors, the SELECT of the chunk ids
DeleteSelect(r) ==
    /\ req[r].pc = "delete_select"
    /\ LET ids == SortedSeq({ c.id : c \in ProjectRows(chunks, req[r].projectId) })
           after == IF req[r].kind = "index" THEN "delete_rows" ELSE "delete_project"
       IN  SetReq(r, [req[r] EXCEPT !.chunkIds = ids, !.i = 0,
                         !.pc = IF Len(ids) = 0 THEN after ELSE "delete_batch"])
    /\ UNCHANGED <<chunkVars, embedded, dbVars, vectors, kv, now, nextId, nreq>>

\* a delete loop whose failed batch ends the caller with the exception
DeleteBatchThrows(r) ==
    /\ req[r].pc = "delete_batch"
    /\ LET q == req[r]
           batch == SeqRange(Slice(q.chunkIds, q.i, q.i + DELETE_BATCH_SIZE))
           after == IF q.kind = "index" THEN "delete_rows" ELSE "delete_project"
           nextPc == IF q.i + DELETE_BATCH_SIZE < Len(q.chunkIds) THEN "delete_batch" ELSE after
       IN  \/ /\ vectors' = { v \in vectors : v.id \notin batch }
              /\ SetReq(r, [q EXCEPT !.i = q.i + DELETE_BATCH_SIZE, !.pc = nextPc])
           \/ /\ vectors' = vectors
              /\ SetReq(r, Done(q.kind, 500, "deleteByIds failed",
                                IF q.kind = "index" THEN IndexInfo(q) ELSE [mode |-> "delete"]))
    /\ UNCHANGED <<chunkVars, embedded, dbVars, kv, now, nextId, nreq>>

\* deleteProjectVectors, one deleteByIds batch: it succeeds, or throws and is skipped
DeleteBatch(r) ==
    /\ req[r].pc = "delete_batch"
    /\ LET q == req[r]
           batch == SeqRange(Slice(q.chunkIds, q.i, q.i + DELETE_BATCH_SIZE))
           after == IF q.kind = "index" THEN "delete_rows" ELSE "delete_project"
           nextPc == IF q.i + DELETE_BATCH_SIZE < Len(q.chunkIds) THEN "delete_batch" ELSE after
       IN  \/ /\ vectors' = { v \in vectors : v.id \notin batch }
              /\ SetReq(r, [q EXCEPT !.i = q.i + DELETE_BATCH_SIZE, !.pc = nextPc])
           \/ /\ vectors' = vectors
              /\ SetReq(r, [q EXCEPT !.i = q.i + DELETE_BATCH_SIZE, !.pc = nextPc,
                               !.deleteErrors = q.deleteErrors + 1])
    /\ UNCHANGED <<chunkVars, embedded, dbVars, kv, now, nextId, nreq>>

\* a DB.batch of the full re-index without the DELETE FROM chunks
DeleteRowsKeepsChunks(r) ==
    /\ req[r].pc = "delete_rows"
    /\ chunks' = chunks
    /\ files' = files \ ProjectRows(files, req[r].projectId)
    /\ projects' = UpdateProject(projects, req[r].projectId,
                                 [status |-> "indexing", file_count |-> 0])
    /\ LET pr == Prepare(req[r], nextId)
       IN  SetReq(r, pr.q) /\ nextId' = pr.nextId
    /\ UNCHANGED <<chunkVars, embedded, conversations, messages, vectors, kv, now, nreq>>

\* the DB.batch of the full re-index: chunks and files deleted, file_count reset
DeleteRows(r) ==
    /\ req[r].pc = "delete_rows"
    /\ chunks' = chunks \ ProjectRows(chunks, req[r].projectId)
    /\ files' = files \ ProjectRows(files, req[r].projectId)
    /\ projects' = UpdateProject(projects, req[r].projectId,
                                 [status |-> "indexing", file_count |-> 0])
    /\ LET pr == Prepare(req[r], nextId)
       IN  SetReq(r, pr.q) /\ nextId' = pr.nextId
    /\ UNCHANGED <<chunkVars, embedded, conversations, messages, vectors, kv, now, nreq>>

\* INSERT INTO projects; path is UNIQUE
CreateProject(r) ==
    /\ req[r].pc = "create_project"
    /\ LET q == req[r]
           projectId == nextId + 1
       IN  IF \E p \in projects : p.path = q.body.project_path
           THEN /\ SetReq(r, Done("index", 500, "UNIQUE constraint failed", IndexInfo(q)))
                /\ nextId' = projectId
                /\ projects' = projects
           ELSE /\ projects' = projects \cup
                      { [id |-> projectId, name |-> extractProjectName(q.body.project_path),
                         path |-> q.body.project_path, status |-> "indexing",
                         file_count |-> 0, last_indexed_at |-> SqlNull] }
                /\ LET pr == Prepare([q EXCEPT !.projectId = projectId], projectId)
                   IN  SetReq(r, pr.q) /\ nextId' = pr.nextId
    /\ UNCHANGED <<chunkVars, embedded, files, chunks, conversations, messages, vectors, kv, now, nreq>>

\* an early return that writes the file count of the run as well
MarkReadyWritesCount(r) ==
    /\ req[r].pc = "mark_ready"
    /\ projects' = UpdateProject(projects, req[r].projectId, [status |-> "ready", file_count |-> Len(req[r].fileRecords)])
    /\ SetReq(r, Done("index", 200, "No new files to index", IndexInfo(req[r])))
    /\ UNCHANGED <<chunkVars, embedded, files, chunks, conversations, messages, vectors, kv, now, nextId, nreq>>

\* lines 119-132: nothing to process
MarkReady(r) ==
    /\ req[r].pc = "mark_ready"
    /\ projects' = UpdateProject(projects, req[r].projectId, [status |-> "ready"])
    /\ SetReq(r, Done("index", 200, "No new files to index", IndexInfo(req[r])))
    /\ UNCHANGED <<chunkVars, embedded, files, chunks, conversations, messages, vectors, kv, now, nextId, nreq>>

\* table files without UNIQUE(project_id, relative_path)
FileInsertAllowedNoUnique(batch, rows, projectRows) ==
    \A i \in 1..Len(batch) : \E p \in projectRows : p.id = batch[i].project_id

\* the constraints of table files on a batch of inserts
FileInsertAllowed(batch, rows, projectRows) ==
    /\ \A i, j \in 1..Len(batch) :
          (i # j) => ~(batch[i].project_id = batch[j].project_id /\ batch[i].relative_path = batch[j].relative_path)
    /\ \A i \in 1..Len(batch) :
          /\ ~\E f \in rows : f.project_id = batch[i].project_id /\ f.relative_path = batch[i].relative_path
          /\ \E p \in projectRows : p.id = batch[i].project_id

\* one DB.batch of file inserts: all rows, or none and the handler fails
InsertFiles(r) ==
    /\ req[r].pc = "insert_files"
    /\ LET q == req[r]
           batch == Slice(q.fileRecords, q.i, q.i + D1_BATCH_SIZE)
       IN  IF FileInsertAllowed(batch, files, projects)
           THEN /\ files' = files \cup { [indexed_at |-> NowSeconds(now)] @@ batch[k] : k \in 1..Len(batch) }
                /\ SetReq(r, IF q.i + D1_BATCH_SIZE < Len(q.fileRecords)
                             THEN [q EXCEPT !.i = q.i + D1_BATCH_SIZE]
                             ELSE [q EXCEPT !.i = 0, !.pc = AfterInsertFiles(q)])
           ELSE /\ files' = files
                /\ SetReq(r, Done("index", 500, "UNIQUE constraint failed", IndexInfo(q)))
    /\ UNCHANGED <<chunkVars, embedded, projects, chunks, conversations, messages, vectors, kv, now, nextId, nreq>>

\* chunk inserts that stop after the first DB.batch
InsertChunksFirstBatch(r) ==
    /\ req[r].pc = "insert_chunks"
    /\ LET q == req[r]
           batch == Slice(q.allChunks, q.i, q.i + D1_BATCH_SIZE)
       IN  IF \A k \in 1..Len(batch) : \E f \in files : f.id = batch[k].file_id
           THEN /\ chunks' = chunks \cup SeqRange(batch)
                /\ SetReq(r, [q EXCEPT !.i = 0, !.pc = "emb_get",
                                       !.emb = [n |-> Min(EMBEDDING_BATCH_SIZE, Len(q.allChunks)), currentCount |-> 0]])
           ELSE /\ chunks' = chunks
                /\ SetReq(r, Done("index", 500, "FOREIGN KEY constraint failed", IndexInfo(q)))
    /\ UNCHANGED <<chunkVars, embedded, projects, files, conversations, messages, vectors, kv, now, nextId, nreq>>

\* one DB.batch of chunk inserts
InsertChunks(r) ==
    /\ req[r].pc = "insert_chunks"
    /\ LET q == req[r]
           batch == Slice(q.allChunks, q.i, q.i + D1_BATCH_SIZE)
       IN  IF \A k \in 1..Len(batch) : \E f \in files : f.id = batch[k].file_id
           THEN /\ chunks' = chunks \cup SeqRange(batch)
                /\ SetReq(r, IF q.i + D1_BATCH_SIZE < Len(q.allChunks)
                             THEN [q EXCEPT !.i = q.i + D1_BATCH_SIZE]
                             ELSE [q EXCEPT !.i = 0, !.pc = "emb_get",
                                            !.emb = [n |-> Min(EMBEDDING_BATCH_SIZE, Len(q.allChunks)), currentCount |-> 0]])
           ELSE /\ chunks' = chunks
                /\ SetReq(r, Done("index", 500, "FOREIGN KEY constraint failed", IndexInfo(q)))
    /\ UNCHANGED <<chunkVars, embedded, projects, files, conversations, messages, vectors, kv, now, nextId, nreq>>

\* an upsert loop that a failed batch ends
UpsertStopsAtFailure(r) ==
    /\ req[r].pc = "upsert"
    /\ LET q == req[r]
           batch == Slice(q.vectorResults, q.i, q.i + BATCH_SIZE)
           ni == q.i + BATCH_SIZE
           nextPc == IF ni < Len(q.vectorResults) THEN "upsert" ELSE "finalize"
       IN  \/ /\ vectors' = { v \in vectors : \A k \in 1..Len(batch) : v.id # batch[k].id } \cup SeqRange(batch)
              /\ SetReq(r, [q EXCEPT !.i = ni, !.pc = nextPc, !.inserted = q.inserted + Len(batch)])
           \/ /\ vectors' = vectors
              /\ SetReq(r, [q EXCEPT !.i = ni, !.pc = "finalize", !.errors = q.errors + Len(batch)])
    /\ UNCHANGED <<chunkVars, embedded, dbVars, kv, now, nextId, nreq>>

\* upsertVectors, one batch: it is upserted, or throws and is counted
Upsert(r) ==
    /\ req[r].pc = "upsert"
    /\ LET q == req[r]
           batch == Slice(q.vectorResults, q.i, q.i + BATCH_SIZE)
           ni == q.i + BATCH_SIZE
           nextPc == IF ni < Len(q.vectorResults) THEN "upsert" ELSE "finalize"
       IN  \/ /\ vectors' = { v \in vectors : \A k \in 1..Len(batch) : v.id # batch[k].id } \cup SeqRange(batch)
              /\ SetReq(r, [q EXCEPT !.i = ni, !.pc = nextPc, !.inserted = q.inserted + Len(batch)])
           \/ /\ vectors' = vectors
              /\ SetReq(r, [q EXCEPT !.i = ni, !.pc = nextPc, !.errors = q.errors + Len(batch)])
    /\ UNCHANGED <<chunkVars, embedded, dbVars, kv, now, nextId, nreq>>

\* a final update that writes the number of chunks as the file count
FinalizeCountsChunks(r) ==
    /\ req[r].pc = "finalize"
    /\ LET q == req[r]
       IN  /\ projects' =
                 UNION { UpdateProject({p}, q.projectId,
                                 [status |-> FinalStatus(q.errors),
                                  file_count |-> FinalFileCount(q.appendMode, p.file_count, Len(q.allChunks)),
                                  last_indexed_at |-> NowSeconds(now)]) : p \in projects }
           /\ SetReq(r, Done("index", 200, IF q.errors = 0 THEN "complete" ELSE "error", IndexInfo(q)))
    /\ UNCHANGED <<chunkVars, embedded, files, chunks, conversations, messages, vectors, kv, now, nextId, nreq>>

\* lines 238-274: the project row is updated and the response returned
Finalize(r) ==
    /\ req[r].pc = "finalize"
    /\ LET q == req[r]
       IN  /\ projects' =
                 UNION { UpdateProject({p}, q.projectId,
                                 [status |-> FinalStatus(q.errors),
                                  file_count |-> FinalFileCount(q.appendMode, p.file_count, Len(q.fileRecords)),
                                  last_indexed_at |-> NowSeconds(now)]) : p \in projects }
           /\ SetReq(r, Done("index", 200, IF q.errors = 0 THEN "complete" ELSE "error", IndexInfo(q)))
    /\ UNCHANGED <<chunkVars, embedded, files, chunks, conversations, messages, vectors, kv, now, nextId, nreq>>

\* the positions of handleIndex at a call to the relational store
IndexDbPcs == {"append_select", "append_status", "delete_select", "delete_rows", "create_project",
               "mark_ready", "insert_files", "insert_chunks", "finalize"}

\* a catch that writes a terminal status before it answers
IndexDbFailReset(r) ==
    /\ req[r].kind = "index" /\ req[r].pc \in IndexDbPcs
    /\ SetReq(r, Done("index", 500, "Indexing failed", IndexInfo(req[r])))
    /\ projects' = UpdateProject(projects, req[r].projectId, [status |-> "error"])
    /\ UNCHANGED <<chunkVars, embedded, files, chunks, conversations, messages, vectors, kv, now, nextId, nreq>>

\* a call to the relational store throws: the outer catch answers 500
IndexDbFail(r) ==
    /\ req[r].kind = "index" /\ req[r].pc \in IndexDbPcs
    /\ SetReq(r, Done("index", 500, "Indexing failed", IndexInfo(req[r])))
    /\ UNCHANGED <<chunkVars, embedded, dbVars, vectors, kv, now, nextId, nreq>>

(***************************************************************************)
(* handleDeleteProject (src/src/handlers/projects.ts)                      *)
(***************************************************************************)
\* an id no project has
UnknownProjectId == 0

DeleteRun(projectId) ==
    [pc |-> "delete_select", kind |-> "delete", projectId |-> projectId,
     chunkIds |-> <<>>, i |-> 0, deleteErrors |-> 0]

DeleteInfo(q) == [mode |-> "delete", projectId |-> q.projectId, deleteErrors |-> q.deleteErrors]

DeleteStart(r) ==
    /\ req[r].pc \in {"idle", "done"}
    /\ nreq < MaxRequests
    /\ nreq' = nreq + 1
    /\ \E projectId \in { p.id : p \in projects } \cup {UnknownProjectId} :
         IF \E p \in projects : p.id = projectId
         THEN SetReq(r, DeleteRun(projectId))
         ELSE SetReq(r, Done("delete", 404, "Project not found", [mode |-> "delete", projectId |-> projectId, deleteErrors |-> 0]))
    /\ UNCHANGED <<chunkVars, embedded, dbVars, vectors, kv, now, nextId>>

\* a DB.batch without the DELETE FROM conversations: ON DELETE SET NULL keeps the rows
DeleteProjectKeepsConversations(r) ==
    /\ req[r].pc = "delete_project"
    /\ LET id == req[r].projectId
       IN  /\ chunks' = chunks \ ProjectRows(chunks, id)
           /\ files' = files \ ProjectRows(files, id)
           /\ conversations' = { IF c.project_id = id THEN [c EXCEPT !.project_id = SqlNull] ELSE c : c \in conversations }
           /\ messages' = messages
           /\ projects' = { p \in projects : p.id # id }
    /\ SetReq(r, Done("delete", 200, "Project deleted successfully", DeleteInfo(req[r])))
    /\ UNCHANGED <<chunkVars, embedded, vectors, kv, now, nextId, nreq>>

\* the DB.batch of handleDeleteProject; messages go with their conversation
DeleteProject(r) ==
    /\ req[r].pc = "delete_project"
    /\ LET id == req[r].projectId
           gone == { c.id : c \in ProjectRows(conversations, id) }
       IN  /\ chunks' = chunks \ ProjectRows(chunks, id)
           /\ files' = files \ ProjectRows(files, id)
           /\ conversations' = conversations \ ProjectRows(conversations, id)
           /\ messages' = { m \in messages : m.conversation_id \notin gone }
           /\ projects' = { p \in projects : p.id # id }
    /\ SetReq(r, Done("delete", 200, "Project deleted successfully", DeleteInfo(req[r])))
    /\ UNCHANGED <<chunkVars, embedded, vectors, kv, now, nextId, nreq>>

\* a call to the relational store throws in handleDeleteProject
DeleteDbFail(r) ==
    /\ req[r].kind = "delete" /\ req[r].pc \in {"delete_select", "delete_project"}
    /\ SetReq(r, Done("delete", 500, "Internal error", DeleteInfo(req[r])))
    /\ UNCHANGED <<chunkVars, embedded, dbVars, vectors, kv, now, nextId, nreq>>

(***************************************************************************)
(* generateEmbeddings called on its own                                    *)
(***************************************************************************)
MaxTexts == 5

EmbedRun(n) == [pc |-> "emb_get", kind |-> "embed", emb |-> [n |-> n, currentCount |-> 0]]

\* generateEmbeddings is called, for the limit-th time at most
EmbedBegin(r, limit) ==
    /\ req[r].pc \in {"idle", "done"}
    /\ nreq < limit
    /\ nreq' = nreq + 1
    /\ \E n \in 0..MaxTexts :
         SetReq(r, IF n = 0 THEN Done("embed", 200, "embeddings", [mode |-> "embed", n |-> 0])
                   ELSE EmbedRun(n))
    /\ UNCHANGED <<chunkVars, embedded, dbVars, vectors, kv, now, nextId>>

EmbedCall(r) == EmbedBegin(r, MaxRequests)

(***************************************************************************)
(* Time                                                                    *)
(***************************************************************************)
\* the clock at the start, in milliseconds
StartMs == 100000000

\* the clock advances once, by half the recency window or to just past it
TickSeconds == {RECENT_SECONDS \div 2, RECENT_SECONDS + 1}

Tick ==
    /\ now = StartMs
    /\ \E t \in TickSeconds : now' = now + t * 1000
    /\ UNCHANGED <<chunkVars, embedded, dbVars, vectors, kv, nextId, nreq, req>>

(***************************************************************************)
(* handleQuery (src/src/handlers/query.ts), one action per awaited call    *)
(***************************************************************************)
DAILY_LLM_LIMIT == 3000

\* LIMIT of the history SELECT
HISTORY_LIMIT == 10

\* top_k when the body gives none
DEFAULT_TOP_K == 10

MaxQueries == 7

MaxConversations == 2

\* seconds the clock may advance while queries are served
MaxSeconds == 1

\* a field the JSON body does not have
Undefined == SqlNull

\* an id no conversation has
UnknownConversationId == 0

QueryText == <<Run("text", 5)>>

BlankText == <<Run("ws", 2)>>

QueryBodies(conversationIds) ==
    { [given |-> {"query"}, query |-> t, conversation_id |-> c, project_id |-> Undefined, top_k |-> k] :
          t \in {QueryText, BlankText}, c \in conversationIds \cup {Undefined, UnknownConversationId},
          k \in {Undefined} }
      \cup { Unparseable,
             [given |-> {}, query |-> <<>>, conversation_id |-> Undefined, project_id |-> Undefined, top_k |-> Undefined],
             [given |-> {"query"}, query |-> <<>>, conversation_id |-> Undefined, project_id |-> Undefined, top_k |-> Undefined] }

\* the locals of a running handleQuery
QueryRun(body) ==
    [pc |-> "emb_get", kind |-> "query", body |-> body, emb |-> [n |-> 1, currentCount |-> 0],
     vectorResults |-> <<>>, chunksMap |-> {}, context |-> <<>>, conversationHistory |-> <<>>,
     currentConversationId |-> body.conversation_id, llmCount |-> 0, sources |-> <<>>]

\* what a finished handleQuery run did
QueryInfo(q) ==
    [mode |-> "query", body |-> q.body, conversationId |-> q.currentConversationId,
     vectorResults |-> q.vectorResults, context |-> q.context,
     conversationHistory |-> q.conversationHistory, sources |-> q.sources]

\* validation that does not trim the query
QueryEntryNoTrim(body) ==
    IF body = Unparseable THEN Done("query", 500, "SyntaxError", EntryInfo("invalid", body))
    ELSE IF "query" \notin body.given \/ body.query = <<>>
    THEN Done("query", 400, "Query is required", EntryInfo("invalid", body))
    ELSE QueryRun(body)

\* lines 14-20: body and validation
QueryEntry(body) ==
    IF body = Unparseable THEN Done("query", 500, "SyntaxError", EntryInfo("invalid", body))
    ELSE IF "query" \notin body.given \/ ~TrimNonEmpty(body.query)
    THEN Done("query", 400, "Query is required", EntryInfo("invalid", body))
    ELSE QueryRun(body)

TopK(body) == IF body.top_k = Undefined THEN DEFAULT_TOP_K ELSE body.top_k

RECURSIVE Arrangements(_, _)
\* the match lists VECTORIZE.query may return: at most k vectors, best first
Arrangements(S, k) ==
    IF k = 0 \/ S = {} THEN { <<>> }
    ELSE { <<>> } \cup UNION { { <<x>> \o t : t \in Arrangements(S \ {x}, k - 1) } : x \in S }

\* the filter of searchVectors
FilterMatches(vs, projectId) ==
    IF projectId = Undefined THEN vs ELSE { v \in vs : v.metadata.project_id = projectId }

\* chunks JOIN files JOIN projects WHERE c.id IN (ids)
ChunksResult(ids) ==
    { [id |-> c.id, content |-> c.content, start_line |-> c.start_line, end_line |-> c.end_line,
       relative_path |-> f.relative_path, project_name |-> p.name] :
          <<c, f, p>> \in { t \in chunks \X files \X projects :
                               t[1].id \in ids /\ t[1].file_id = t[2].id /\ t[1].project_id = t[3].id } }

\* lines 56-74: the matches that have a chunk row, in the order of the matches
ContextOf(vectorResults, chunksMap) ==
    LET kept == Filter(vectorResults, { vr \in SeqRange(vectorResults) : \E row \in chunksMap : row.id = vr.id })
    IN  [k \in 1..Len(kept) |->
            LET chunk == CHOOSE row \in chunksMap : row.id = kept[k].id
            IN  [chunk_id |-> chunk.id, content |-> chunk.content, filePath |-> chunk.relative_path,
                 projectName |-> chunk.project_name, startLine |-> chunk.start_line, endLine |-> chunk.end_line]]

\* lines 104-114: one source per match, with or without a chunk row
SourcesOf(vectorResults, chunksMap) ==
    [k \in 1..Len(vectorResults) |->
        LET vr == vectorResults[k]
            found == { row \in chunksMap : row.id = vr.id }
        IN  [chunk_id |-> vr.id,
             file_path |-> IF found # {} THEN (CHOOSE row \in found : TRUE).relative_path ELSE vr.metadata.file_path,
             project_name |-> IF found # {} THEN (CHOOSE row \in found : TRUE).project_name ELSE <<>>,
             start_line |-> vr.metadata.start_line, end_line |-> vr.metadata.end_line, rank |-> k]]

ConversationMessages(rows, conversationId) == { m \in rows : m.conversation_id = conversationId }

RECURSIVE TakeOldest(_, _)
\* ORDER BY created_at ASC LIMIT limit: the rows grouped by created_at, oldest group first;
\* rows of one group come in an order the store chooses, and so does the cut inside a group
TakeOldest(M, limit) ==
    IF M = {} \/ limit = 0 THEN { <<>> }
    ELSE LET t == CHOOSE x \in { m.created_at : m \in M } : \A m \in M : x <= m.created_at
             g == { m \in M : m.created_at = t }
         IN  IF Cardinality(g) <= limit
             THEN { <<g>> \o rest : rest \in TakeOldest(M \ g, limit - Cardinality(g)) }
             ELSE { <<part>> : part \in { x \in SUBSET g : Cardinality(x) = limit } }

\* currentCount >= DAILY_LLM_LIMIT
LlmQuotaExceeded(currentCount) == currentCount >= DAILY_LLM_LIMIT

\* a query arrives, the limit-th at most
QueryBegin(r, limit) ==
    /\ req[r].pc \in {"idle", "done"}
    /\ nreq < limit
    /\ nreq' = nreq + 1
    /\ \E body \in QueryBodies({ c.id : c \in conversations }) :
         /\ (body # Unparseable /\ body.conversation_id = Undefined) => Cardinality(conversations) < MaxConversations
         /\ SetReq(r, QueryEntry(body))
    /\ UNCHANGED <<chunkVars, embedded, dbVars, vectors, kv, now, nextId>>

QueryStart(r) == QueryBegin(r, MaxQueries)

\* searchVectors, without the return of lines 31-37
QuerySearchNoReturn(r) ==
    /\ req[r].pc = "search"
    /\ LET q == req[r]
       IN  \E matches \in Arrangements(FilterMatches(vectors, q.body.project_id), TopK(q.body)) :
             SetReq(r, [q EXCEPT !.pc = "hydrate", !.vectorResults = matches])
    /\ UNCHANGED <<chunkVars, embedded, dbVars, vectors, kv, now, nextId, nreq>>

\* searchVectors; no match: lines 31-37
QuerySearch(r) ==
    /\ req[r].pc = "search"
    /\ LET q == req[r]
       IN  \E matches \in Arrangements(FilterMatches(vectors, q.body.project_id), TopK(q.body)) :
             IF Len(matches) = 0
             THEN IF q.body.conversation_id # Undefined
                  THEN /\ SetReq(r, Done("query", 200, "no relevant code", QueryInfo(q)))
                  ELSE /\ SetReq(r, Done("query", 200, "no relevant code",
                                         QueryInfo([q EXCEPT !.currentConversationId = nextId + 1])))
             ELSE /\ SetReq(r, [q EXCEPT !.pc = "hydrate", !.vectorResults = matches])
    /\ UNCHANGED <<chunkVars, embedded, dbVars, vectors, kv, now, nextId, nreq>>

\* chunksResult.results: the rows of the SELECT, in an order the store chooses
RowOrders(rows) == { s \in Arrangements(rows, Cardinality(rows)) : Len(s) = Cardinality(rows) }

\* lines 51-54: the rows by their id
ChunksMapOf(results) == SeqRange(results)

\* a context built from the rows as the store returned them
ContextInRowOrder(results) ==
    [k \in 1..Len(results) |->
        [chunk_id |-> results[k].id, content |-> results[k].content, filePath |-> results[k].relative_path,
         projectName |-> results[k].project_name, startLine |-> results[k].start_line, endLine |-> results[k].end_line]]

\* hydration whose context follows the rows of the store
QueryHydrateRowOrder(r) ==
    /\ req[r].pc = "hydrate"
    /\ LET q == req[r]
           rows == ChunksResult({ q.vectorResults[k].id : k \in 1..Len(q.vectorResults) })
       IN  \E results \in RowOrders(rows) :
             SetReq(r, [q EXCEPT !.chunksMap = ChunksMapOf(results), !.context = ContextInRowOrder(results),
                                 !.pc = IF q.body.conversation_id # Undefined THEN "history" ELSE "title"])
    /\ UNCHANGED <<chunkVars, embedded, dbVars, vectors, kv, now, nextId, nreq>>

\* lines 39-74: the chunk rows of the matches, and the context built from them
QueryHydrate(r) ==
    /\ req[r].pc = "hydrate"
    /\ LET q == req[r]
           rows == ChunksResult({ q.vectorResults[k].id : k \in 1..Len(q.vectorResults) })
       IN  \E results \in RowOrders(rows) :
             SetReq(r, [q EXCEPT !.chunksMap = ChunksMapOf(results),
                                 !.context = ContextOf(q.vectorResults, ChunksMapOf(results)),
                                 !.pc = IF q.body.conversation_id # Undefined THEN "history" ELSE "title"])
    /\ UNCHANGED <<chunkVars, embedded, dbVars, vectors, kv, now, nextId, nreq>>

\* lines 80-87: the history of the conversation the body names
QueryHistory(r) ==
    /\ req[r].pc = "history"
    /\ \E loaded \in TakeOldest(ConversationMessages(messages, req[r].body.conversation_id), HISTORY_LIMIT) :
         SetReq(r, [req[r] EXCEPT !.conversationHistory = loaded, !.pc = "llm_get"])
    /\ UNCHANGED <<chunkVars, embedded, dbVars, vectors, kv, now, nextId, nreq>>

\* line 91: generateConversationTitle
QueryTitle(r) ==
    /\ req[r].pc = "title"
    /\ SetReq(r, [req[r] EXCEPT !.pc = "new_conversation"])
    /\ UNCHANGED <<chunkVars, embedded, dbVars, vectors, kv, now, nextId, nreq>>

\* lines 90-95: INSERT INTO conversations; the id of line 90 is a fresh one, and no
\* other request sees it before this insert
QueryNewConversation(r) ==
    /\ req[r].pc = "new_conversation"
    /\ LET q == req[r]
           id == nextId + 1
       IN  IF q.body.project_id # Undefined /\ ~\E p \in projects : p.id = q.body.project_id
           THEN /\ conversations' = conversations
                /\ nextId' = nextId
                /\ SetReq(r, Done("query", 500, "FOREIGN KEY constraint failed", QueryInfo(q)))
           ELSE /\ nextId' = id
                /\ conversations' = conversations \cup
                       { [id |-> id, project_id |-> q.body.project_id,
                          title |-> "title", message_count |-> 0, created_at |-> NowSeconds(now)] }
                /\ SetReq(r, [q EXCEPT !.pc = "llm_get", !.currentConversationId = id])
    /\ UNCHANGED <<chunkVars, embedded, projects, files, chunks, messages, vectors, kv, now, nreq>>

\* generateRAGResponse: the counter is read and the quota checked
LlmGet(r) ==
    /\ req[r].pc = "llm_get"
    /\ LET currentCount == KvCount(kv.query)
       IN  IF LlmQuotaExceeded(currentCount)
           THEN SetReq(r, Done("query", 500, "Daily LLM query limit reached", QueryInfo(req[r])))
           ELSE SetReq(r, [req[r] EXCEPT !.pc = "llm_run", !.llmCount = currentCount])
    /\ UNCHANGED <<chunkVars, embedded, dbVars, vectors, kv, now, nextId, nreq>>

\* generateRAGResponse: env.AI.run answers
LlmRun(r) ==
    /\ req[r].pc = "llm_run"
    /\ SetReq(r, [req[r] EXCEPT !.pc = "llm_put"])
    /\ UNCHANGED <<chunkVars, embedded, dbVars, vectors, kv, now, nextId, nreq>>

\* generateRAGResponse: the counter is written back; lines 104-114: the sources
LlmPut(r) ==
    /\ req[r].pc = "llm_put"
    /\ kv' = [kv EXCEPT !.query = KvString(req[r].llmCount + 1)]
    /\ SetReq(r, [req[r] EXCEPT !.pc = "save", !.sources = SourcesOf(req[r].vectorResults, req[r].chunksMap)])
    /\ UNCHANGED <<chunkVars, embedded, dbVars, vectors, now, nextId, nreq>>

\* the count raised by one for the two messages
MessageCountAfterOne(count) == count + 1

\* message_count = message_count + 2
MessageCountAfter(count) == count + 2

\* lines 117-140: the two messages and the message count, in one DB.batch
QuerySave(r) ==
    /\ req[r].pc = "save"
    /\ LET q == req[r]
           id == q.currentConversationId
           userMessage == [id |-> nextId + 1, conversation_id |-> id, role |-> "user",
                           content |-> q.body.query, sources |-> <<>>, created_at |-> NowSeconds(now)]
           assistantMessage == [id |-> nextId + 2, conversation_id |-> id, role |-> "assistant",
                                content |-> <<Run("text", 1)>>, sources |-> q.sources, created_at |-> NowSeconds(now)]
       IN  IF \E c \in conversations : c.id = id
           THEN /\ nextId' = nextId + 2
                /\ messages' = messages \cup {userMessage, assistantMessage}
                /\ conversations' = { IF c.id = id THEN [c EXCEPT !.message_count = MessageCountAfter(c.message_count)] ELSE c :
                                        c \in conversations }
                /\ SetReq(r, Done("query", 200, "answer", QueryInfo(q)))
           ELSE /\ nextId' = nextId
                /\ messages' = messages
                /\ conversations' = conversations
                /\ SetReq(r, Done("query", 500, "FOREIGN KEY constraint failed", QueryInfo(q)))
    /\ UNCHANGED <<chunkVars, embedded, projects, files, chunks, vectors, kv, now, nreq>>

\* the positions of handleQuery at an awaited call that can throw
QueryFailPcs == {"search", "hydrate", "history", "title", "new_conversation", "llm_get", "llm_run", "llm_put", "save"}

\* an awaited call of handleQuery throws: the catch answers 500
QueryFail(r) ==
    /\ req[r].kind = "query" /\ req[r].pc \in QueryFailPcs
    /\ SetReq(r, Done("query", 500, "Query failed", QueryInfo(req[r])))
    /\ UNCHANGED <<chunkVars, embedded, dbVars, vectors, kv, now, nextId, nreq>>

\* a second passes between two requests
TickSecond ==
    /\ \A r \in Slots : req[r].pc \in {"idle", "done"}
    /\ now < StartMs + MaxSeconds * 1000
    /\ now' = now + 1000
    /\ UNCHANGED <<chunkVars, embedded, dbVars, vectors, kv, nextId, nreq, req>>

(***************************************************************************)
(* generateEmbeddings (src/src/lib/embeddings.ts), as handleIndex,         *)
(* handleQuery and a direct caller run it                                  *)
(***************************************************************************)
\* handleIndex after an embedding batch: the next batch, or the upsert
NextEmbeddingBatch(q) ==
    LET ni == q.i + EMBEDDING_BATCH_SIZE
    IN  IF ni < Len(q.allChunks)
        THEN [q EXCEPT !.i = ni, !.pc = "emb_get",
                       !.emb = [n |-> Min(EMBEDDING_BATCH_SIZE, Len(q.allChunks) - ni), currentCount |-> 0]]
        ELSE [q EXCEPT !.i = 0, !.pc = AfterEmbedding(q)]

\* generateEmbeddings returned to its caller
EmbeddingsReturned(q) ==
    CASE q.kind = "index" ->
           LET batch == Slice(q.allChunks, q.i, q.i + EMBEDDING_BATCH_SIZE)
               made == [k \in 1..Len(batch) |-> VectorOf(batch[k], q.projectId, q.fileRecords)]
           IN  NextEmbeddingBatch([q EXCEPT !.vectorResults = q.vectorResults \o made])
      [] q.kind = "query" -> [q EXCEPT !.pc = "search"]
      [] OTHER -> Done("embed", 200, "embeddings",
                       [mode |-> "embed", n |-> q.emb.n, currentCount |-> q.emb.currentCount])

\* a caller that lets the exception of generateEmbeddings end the run
EmbeddingsThrewAborts(q, why) ==
    CASE q.kind = "index" -> Done("index", 500, why, IndexInfo([q EXCEPT !.embedErrors = q.embedErrors + 1]))
      [] q.kind = "query" -> Done("query", 500, why, QueryInfo(q))
      [] OTHER -> Done("embed", 500, why, [mode |-> "embed", n |-> q.emb.n])

\* generateEmbeddings threw to its caller
EmbeddingsThrew(q, why) ==
    CASE q.kind = "index" -> NextEmbeddingBatch([q EXCEPT !.embedErrors = q.embedErrors + 1])
      [] q.kind = "query" -> Done("query", 500, why, QueryInfo(q))
      [] OTHER -> Done("embed", 500, why, [mode |-> "embed", n |-> q.emb.n])

\* generateEmbeddings: the counter is read and the quota checked
EmbGet(r) ==
    /\ req[r].pc = "emb_get"
    /\ LET q == req[r]
           currentCount == KvCount(kv.embedding)
       IN  IF EmbeddingQuotaExceeded(currentCount, q.emb.n)
           THEN SetReq(r, EmbeddingsThrew(q, "Daily embedding limit reached"))
           ELSE SetReq(r, [q EXCEPT !.pc = "emb_run", !.emb.currentCount = currentCount])
    /\ UNCHANGED <<chunkVars, embedded, dbVars, vectors, kv, now, nextId, nreq>>

\* generateEmbeddings: env.AI.run embeds the texts and answers, or throws
EmbRun(r) ==
    /\ req[r].pc = "emb_run"
    /\ \/ /\ SetReq(r, [req[r] EXCEPT !.pc = "emb_put"])
          /\ embedded' = embedded + req[r].emb.n
       \/ /\ SetReq(r, EmbeddingsThrew(req[r], "AI.run failed"))
          /\ embedded' = embedded
    /\ UNCHANGED <<chunkVars, dbVars, vectors, kv, now, nextId, nreq>>

\* generateEmbeddings: the counter is written back
EmbPut(r) ==
    /\ req[r].pc = "emb_put"
    /\ kv' = [kv EXCEPT !.embedding = KvString(EmbeddingCountAfter(req[r].emb.currentCount, req[r].emb.n))]
    /\ SetReq(r, EmbeddingsReturned(req[r]))
    /\ UNCHANGED <<chunkVars, embedded, dbVars, vectors, now, nextId, nreq>>

(***************************************************************************)
(* Chunker harness: chunkFile on a bounded family of files, its rows       *)
(* stored as handleIndex stores them, then read back with readFileTool.    *)
(***************************************************************************)
HarnessOpts(path) == [fileId |-> 1, projectId |-> 1, filePath |-> path]

HarnessIdle ==
    /\ cpc = "idle"
    /\ cfile = Null
    /\ cchunks = <<>>
    /\ cread = Null

\* handleIndex's processing of one file: chunkFile, rows stored as returned
ChunkOneFile ==
    /\ cpc = "idle"
    /\ \E inp \in ChunkInputs :
         /\ cfile' = inp
         /\ cchunks' = chunkFile(inp.content, HarnessOpts(inp.path))
    /\ cpc' = "chunked"
    /\ cread' = cread
    /\ UNCHANGED sysVars

ReadFile ==
    /\ cpc = "chunked"
    /\ \E ordered \in SortedOrders(cchunks, 1..Len(cchunks)) :
         cread' = readFileResult(ordered)
    /\ cpc' = "read"
    /\ UNCHANGED <<cfile, cchunks>>
    /\ UNCHANGED sysVars

(***************************************************************************)
(* Specifications                                                          *)
(***************************************************************************)
\* the store is empty, no request is running
SystemIdle ==
    /\ projects = {}
    /\ files = {}
    /\ chunks = {}
    /\ conversations = {}
    /\ messages = {}
    /\ vectors = {}
    /\ now = StartMs
    /\ nextId = 0
    /\ nreq = 0
    /\ req = [r \in Slots |-> Idle]

\* the counter has counted every text embedded so far today
DayStart == embedded = KvCount(kv.embedding)

\* the chunker and readFileTool
InitChunk == HarnessIdle /\ SystemIdle /\ kv = [embedding |-> KvMissing, query |-> KvMissing] /\ DayStart

NextChunk == ChunkOneFile \/ ReadFile

SpecChunk == InitChunk /\ [][NextChunk]_vars

\* the counter values a day can start a request with
KvStarts == {KvMissing, KvString(DAILY_EMBEDDING_LIMIT - 1)}

\* indexing and project deletion, one request at a time
Init == HarnessIdle /\ SystemIdle /\ kv \in [embedding : KvStarts, query : {KvMissing}] /\ DayStart

Next ==
    \/ Tick
    \/ \E r \in Slots :
         \/ IndexStart(r)
         \/ AppendSelect(r)
         \/ AppendStatus(r)
         \/ DeleteSelect(r)
         \/ DeleteBatch(r)
         \/ DeleteRows(r)
         \/ CreateProject(r)
         \/ MarkReady(r)
         \/ InsertFiles(r)
         \/ InsertChunks(r)
         \/ EmbGet(r)
         \/ EmbRun(r)
         \/ EmbPut(r)
         \/ Upsert(r)
         \/ Finalize(r)
         \/ IndexDbFail(r)
         \/ DeleteStart(r)
         \/ DeleteProject(r)
         \/ DeleteDbFail(r)

Spec == Init /\ [][Next]_vars

\* generateEmbeddings alone, the counter anywhere near the limit
EmbedKvStarts ==
    {KvMissing} \cup { KvString(c) : c \in (DAILY_EMBEDDING_LIMIT - MaxTexts - 1)..(DAILY_EMBEDDING_LIMIT + 1) }

InitEmbed == HarnessIdle /\ SystemIdle /\ kv \in [embedding : EmbedKvStarts, query : {KvMissing}] /\ DayStart

NextEmbed == \E r \in Slots : EmbedCall(r) \/ EmbGet(r) \/ EmbRun(r) \/ EmbPut(r)

SpecEmbed == InitEmbed /\ [][NextEmbed]_vars

\* a day of generateEmbeddings calls, one at a time, the counter at most at the limit
MaxDayCalls == 3

DayKvStarts ==
    {KvMissing} \cup { KvString(c) : c \in (DAILY_EMBEDDING_LIMIT - MaxTexts - 1)..DAILY_EMBEDDING_LIMIT }

EmbedCallDay(r) == EmbedBegin(r, MaxDayCalls)

InitEmbedDay == HarnessIdle /\ SystemIdle /\ kv \in [embedding : DayKvStarts, query : {KvMissing}] /\ DayStart

NextEmbedDay == \E r \in Slots : EmbedCallDay(r) \/ EmbGet(r) \/ EmbRun(r) \/ EmbPut(r)

SpecEmbedDay == InitEmbedDay /\ [][NextEmbedDay]_vars

\* the indexing of a file of more chunks than a batch holds, and its re-indexing
MaxBigRequests == 2

\* the files of the big request and the chunks of each: 102 chunks in all, two
\* more than an upsert batch holds
BigNames ==
    <<"p1", "p2", "p3", "p4", "p5", "p6", "p7", "p8", "p9", "p10", "p11", "p12", "p13", "p14", "p15", "p16", "p17">>

BigFileCount == Len(BigNames)

BigFileChunks == 6

\* text files of BigFileChunks lines, each of which closes a chunk
BigFiles ==
    [k \in 1..BigFileCount |->
        [path |-> <<BigNames[k], ".", "txt">>, content |-> Join([j \in 1..BigFileChunks |-> HugeLine])]]

BigBodies ==
    { [given |-> {"project_path", "files"}, project_path |-> ProjectPath, force |-> f, append |-> FALSE, files |-> BigFiles] :
          f \in BOOLEAN }

\* the counter far from the limit, one batch from it, and two texts from it
BigKvStarts == {KvMissing, KvString(DAILY_EMBEDDING_LIMIT - EMBEDDING_BATCH_SIZE), KvString(DAILY_EMBEDDING_LIMIT - 2)}

IndexStartBig(r) == IndexBegin(r, BigBodies, MaxBigRequests)

InitBatches == HarnessIdle /\ SystemIdle /\ kv \in [embedding : BigKvStarts, query : {KvMissing}] /\ DayStart

NextBatches ==
    \E r \in Slots :
         \/ IndexStartBig(r)
         \/ DeleteSelect(r)
         \/ DeleteBatch(r)
         \/ DeleteRows(r)
         \/ CreateProject(r)
         \/ InsertFiles(r)
         \/ InsertChunks(r)
         \/ EmbGet(r)
         \/ EmbRun(r)
         \/ EmbPut(r)
         \/ Upsert(r)
         \/ Finalize(r)
         \/ IndexDbFail(r)

SpecBatches == InitBatches /\ [][NextBatches]_vars

\* two generateEmbeddings calls that may overlap
InitEmbedPair ==
    /\ HarnessIdle
    /\ projects = {}
    /\ files = {}
    /\ chunks = {}
    /\ conversations = {}
    /\ messages = {}
    /\ vectors = {}
    /\ now = StartMs
    /\ nextId = 0
    /\ nreq = 0
    /\ req = [r \in Workers |-> Idle]
    /\ kv \in [embedding : EmbedKvStarts, query : {KvMissing}]
    /\ DayStart

NextEmbedPair == \E r \in Workers : EmbedCall(r) \/ EmbGet(r) \/ EmbRun(r) \/ EmbPut(r)

SpecEmbedPair == InitEmbedPair /\ [][NextEmbedPair]_vars

\* the store after handleIndex has indexed one file, ids counted from idc
SeedFile == [path |-> TsPath, content |-> OneChunkContent]

SeedRun(idc) == ProcessFiles(<<SeedFile>>, 1, idc, <<>>, <<>>)

SeedVectors(idc) ==
    { VectorOf(SeedRun(idc).allChunks[k], 1, SeedRun(idc).fileRecords) : k \in 1..Len(SeedRun(idc).allChunks) }

\* one project, indexed once
SeedStore ==
    LET run == SeedRun(1)
    IN  /\ projects = { [id |-> 1, name |-> extractProjectName(ProjectPath), path |-> ProjectPath,
                         status |-> "ready", file_count |-> 1, last_indexed_at |-> NowSeconds(StartMs)] }
        /\ files = { [indexed_at |-> NowSeconds(StartMs)] @@ run.fileRecords[k] : k \in 1..Len(run.fileRecords) }
        /\ chunks = SeqRange(run.allChunks)
        /\ vectors = SeedVectors(1)
        /\ nextId = run.nextId

\* queries against an indexed project
InitQuery ==
    /\ HarnessIdle
    /\ SeedStore
    /\ conversations = {}
    /\ messages = {}
    /\ now = StartMs
    /\ nreq = 0
    /\ req = [r \in Slots |-> Idle]
    /\ kv \in [embedding : {KvMissing}, query : {KvMissing, KvString(DAILY_LLM_LIMIT - 1)}]
    /\ DayStart

NextQuery ==
    \/ TickSecond
    \/ \E r \in Slots :
         \/ QueryStart(r)
         \/ EmbGet(r)
         \/ EmbRun(r)
         \/ EmbPut(r)
         \/ QuerySearch(r)
         \/ QueryHydrate(r)
         \/ QueryHistory(r)
         \/ QueryTitle(r)
         \/ QueryNewConversation(r)
         \/ LlmGet(r)
         \/ LlmRun(r)
         \/ LlmPut(r)
         \/ QuerySave(r)
         \/ QueryFail(r)

SpecQuery == InitQuery /\ [][NextQuery]_vars

\* queries arriving while another is in flight
MaxPairQueries == 3

QueryStartPair(r) == QueryBegin(r, MaxPairQueries)

InitQueryPair ==
    /\ HarnessIdle
    /\ SeedStore
    /\ conversations = {}
    /\ messages = {}
    /\ now = StartMs
    /\ nreq = 0
    /\ req = [r \in Workers |-> Idle]
    /\ kv = [embedding |-> KvMissing, query |-> KvMissing]
    /\ DayStart

NextQueryPair ==
    \E r \in Workers :
        \/ QueryStartPair(r)
        \/ EmbGet(r)
        \/ EmbRun(r)
        \/ EmbPut(r)
        \/ QuerySearch(r)
        \/ QueryHydrate(r)
        \/ QueryHistory(r)
        \/ QueryTitle(r)
        \/ QueryNewConversation(r)
        \/ LlmGet(r)
        \/ LlmRun(r)
        \/ LlmPut(r)
        \/ QuerySave(r)
        \/ QueryFail(r)

SpecQueryPair == InitQueryPair /\ [][NextQueryPair]_vars

\* queries against a project indexed twice, the second time with force and with the
\* vectors of the first run left behind by a failed deleteByIds
MaxOrderQueries == 1

OrderFiles == <<[path |-> TsPath, content |-> OneChunkContent], [path |-> MdPath, content |-> OneChunkContent]>>

OrderRun(idc) == ProcessFiles(OrderFiles, 1, idc, <<>>, <<>>)

OrderVectors(idc) ==
    { VectorOf(OrderRun(idc).allChunks[k], 1, OrderRun(idc).fileRecords) : k \in 1..Len(OrderRun(idc).allChunks) }

OrderStore ==
    LET first == OrderRun(1)
        run == OrderRun(first.nextId)
    IN  /\ projects = { [id |-> 1, name |-> extractProjectName(ProjectPath), path |-> ProjectPath,
                         status |-> "ready", file_count |-> Len(OrderFiles), last_indexed_at |-> NowSeconds(StartMs)] }
        /\ files = { [indexed_at |-> NowSeconds(StartMs)] @@ run.fileRecords[k] : k \in 1..Len(run.fileRecords) }
        /\ chunks = SeqRange(run.allChunks)
        /\ vectors = OrderVectors(1) \cup OrderVectors(first.nextId)
        /\ nextId = run.nextId

QueryStartOrder(r) == QueryBegin(r, MaxOrderQueries)

InitQueryOrder ==
    /\ HarnessIdle
    /\ OrderStore
    /\ conversations = {}
    /\ messages = {}
    /\ now = StartMs
    /\ nreq = 0
    /\ req = [r \in Slots |-> Idle]
    /\ kv = [embedding |-> KvMissing, query |-> KvMissing]
    /\ DayStart

NextQueryOrder ==
    \E r \in Slots :
        \/ QueryStartOrder(r)
        \/ EmbGet(r)
        \/ EmbRun(r)
        \/ EmbPut(r)
        \/ QuerySearch(r)
        \/ QueryHydrate(r)
        \/ QueryHistory(r)
        \/ QueryTitle(r)
        \/ QueryNewConversation(r)
        \/ LlmGet(r)
        \/ LlmRun(r)
        \/ LlmPut(r)
        \/ QuerySave(r)
        \/ QueryFail(r)

SpecQueryOrder == InitQueryOrder /\ [][NextQueryOrder]_vars

\* queries that name the project, and its deletion, one request at a time
MaxOwnedRequests == 3

OwnedQueryBodies(conversationIds, projectIds) ==
    { [given |-> {"query"}, query |-> QueryText, conversation_id |-> c, project_id |-> p, top_k |-> Undefined] :
          c \in conversationIds \cup {Undefined}, p \in projectIds \cup {Undefined} }

\* a query arrives that may name a project
QueryStartOwned(r) ==
    /\ req[r].pc \in {"idle", "done"}
    /\ nreq < MaxOwnedRequests
    /\ nreq' = nreq + 1
    /\ \E body \in OwnedQueryBodies({ c.id : c \in conversations }, { p.id : p \in projects }) :
         /\ body.conversation_id = Undefined => Cardinality(conversations) < MaxConversations
         /\ SetReq(r, QueryEntry(body))
    /\ UNCHANGED <<chunkVars, embedded, dbVars, vectors, kv, now, nextId>>

\* a request to delete a project arrives
DeleteStartOwned(r) ==
    /\ req[r].pc \in {"idle", "done"}
    /\ nreq < MaxOwnedRequests
    /\ nreq' = nreq + 1
    /\ \E projectId \in { p.id : p \in projects } \cup {UnknownProjectId} :
         IF \E p \in projects : p.id = projectId
         THEN SetReq(r, DeleteRun(projectId))
         ELSE SetReq(r, Done("delete", 404, "Project not found", [mode |-> "delete", projectId |-> projectId, deleteErrors |-> 0]))
    /\ UNCHANGED <<chunkVars, embedded, dbVars, vectors, kv, now, nextId>>

InitOwned ==
    /\ HarnessIdle
    /\ SeedStore
    /\ conversations = {}
    /\ messages = {}
    /\ now = StartMs
    /\ nreq = 0
    /\ req = [r \in Slots |-> Idle]
    /\ kv = [embedding |-> KvMissing, query |-> KvMissing]
    /\ DayStart

NextOwned ==
    \E r \in Slots :
        \/ QueryStartOwned(r)
        \/ EmbGet(r)
        \/ EmbRun(r)
        \/ EmbPut(r)
        \/ QuerySearch(r)
        \/ QueryHydrate(r)
        \/ QueryHistory(r)
        \/ QueryTitle(r)
        \/ QueryNewConversation(r)
        \/ LlmGet(r)
        \/ LlmRun(r)
        \/ LlmPut(r)
        \/ QuerySave(r)
        \/ QueryFail(r)
        \/ DeleteStartOwned(r)
        \/ DeleteSelect(r)
        \/ DeleteBatch(r)
        \/ DeleteProject(r)
        \/ DeleteDbFail(r)

SpecOwned == InitOwned /\ [][NextOwned]_vars

(***************************************************************************)
(* codeSearchTool (src/src/lib/embeddings.ts 176-233) and                  *)
(* CodingAgent.handleSearch (src/src/agents/CodingAgent.ts 107-133)        *)
(***************************************************************************)
MaxGuardRequests == 2

\* the locals of a running search; kind is "codeSearch" or "agentSearch"
SearchRun(kind, projectId) ==
    [pc |-> "search_embed", kind |-> kind, query |-> QueryText, projectId |-> projectId,
     topK |-> DEFAULT_TOP_K, matches |-> <<>>]

SearchInfo(q, results) == [mode |-> q.kind, projectId |-> q.projectId, matches |-> q.matches, results |-> results]

\* codeSearchTool or handleSearch is called
SearchStart(r) ==
    /\ req[r].pc \in {"idle", "done"}
    /\ nreq < MaxGuardRequests
    /\ nreq' = nreq + 1
    /\ \E kind \in {"codeSearch", "agentSearch"}, projectId \in { p.id : p \in projects } \cup {Undefined} :
         SetReq(r, SearchRun(kind, projectId))
    /\ UNCHANGED <<chunkVars, embedded, dbVars, vectors, kv, now, nextId>>

\* env.AI.run(env.EMBEDDING_MODEL, {text: query}): the query is embedded, or the call throws
SearchEmbed(r) ==
    /\ req[r].pc = "search_embed"
    /\ \/ /\ SetReq(r, [req[r] EXCEPT !.pc = "search_query"])
          /\ embedded' = embedded + 1
       \/ /\ SetReq(r, Done(req[r].kind, 500, "AI.run failed", SearchInfo(req[r], <<>>)))
          /\ embedded' = embedded
    /\ UNCHANGED <<chunkVars, dbVars, vectors, kv, now, nextId, nreq>>

\* env.VECTORIZE.query with the project filter
SearchQuery(r) ==
    /\ req[r].pc = "search_query"
    /\ \E matches \in Arrangements(FilterMatches(vectors, req[r].projectId), req[r].topK) :
         SetReq(r, [req[r] EXCEPT !.pc = "search_rows", !.matches = matches])
    /\ UNCHANGED <<chunkVars, embedded, dbVars, vectors, kv, now, nextId, nreq>>

\* one result per match, the chunk row joined in where there is one
SearchRowsOf(matches) ==
    [k \in 1..Len(matches) |->
        LET found == ChunksResult({matches[k].id})
        IN  IF found = {} THEN [chunk_id |-> Undefined, rank |-> k]
            ELSE [chunk_id |-> (CHOOSE row \in found : TRUE).id, rank |-> k]]

\* the SELECT per match; codeSearchTool drops the results without a row, handleSearch keeps them
SearchRows(r) ==
    /\ req[r].pc = "search_rows"
    /\ LET q == req[r]
           all == SearchRowsOf(q.matches)
           results == IF q.kind = "codeSearch"
                      THEN Filter(all, { x \in SeqRange(all) : x.chunk_id # Undefined })
                      ELSE all
       IN  SetReq(r, Done(q.kind, 200, "results", SearchInfo(q, results)))
    /\ UNCHANGED <<chunkVars, embedded, dbVars, vectors, kv, now, nextId, nreq>>

\* the positions at which env.AI.run is awaited with a text-generation model:
\* generateConversationTitle and generateRAGResponse
LlmCallPcs == {"title", "llm_run"}

QueryStartGuard(r) == QueryBegin(r, MaxGuardRequests)

\* queries and searches against an indexed project, one request at a time
InitGuard ==
    /\ HarnessIdle
    /\ SeedStore
    /\ conversations = {}
    /\ messages = {}
    /\ now = StartMs
    /\ nreq = 0
    /\ req = [r \in Slots |-> Idle]
    /\ kv = [embedding |-> KvMissing, query |-> KvMissing]
    /\ DayStart

NextGuard ==
    \E r \in Slots :
        \/ QueryStartGuard(r)
        \/ EmbGet(r)
        \/ EmbRun(r)
        \/ EmbPut(r)
        \/ QuerySearch(r)
        \/ QueryHydrate(r)
        \/ QueryHistory(r)
        \/ QueryTitle(r)
        \/ QueryNewConversation(r)
        \/ LlmGet(r)
        \/ LlmRun(r)
        \/ LlmPut(r)
        \/ QuerySave(r)
        \/ QueryFail(r)
        \/ SearchStart(r)
        \/ SearchEmbed(r)
        \/ SearchQuery(r)
        \/ SearchRows(r)

SpecGuard == InitGuard /\ [][NextGuard]_vars

\* index requests for one indexed project, arriving while another is in flight
MaxPairRequests == 2

\* the file the project holds already, or a new one; force, append, or neither
PairBodies ==
    { [given |-> {"project_path", "files"}, project_path |-> ProjectPath, force |-> fa[1], append |-> fa[2], files |-> <<fl>>] :
          fa \in { <<FALSE, FALSE>>, <<TRUE, FALSE>>, <<FALSE, TRUE>> },
          fl \in { SeedFile, [path |-> MdPath, content |-> OneChunkContent] } }

\* a request is served in the lowest slot that is free
LowestFree(r) == \A o \in Workers : (o < r) => req[o].pc \notin {"idle", "done"}

IndexStartPair(r) == LowestFree(r) /\ IndexBegin(r, PairBodies, MaxPairRequests)

\* the project was indexed just over an hour ago
InitIndexPair ==
    /\ HarnessIdle
    /\ SeedStore
    /\ conversations = {}
    /\ messages = {}
    /\ now = StartMs + (RECENT_SECONDS + 1) * 1000
    /\ nreq = 0
    /\ req = [r \in Workers |-> Idle]
    /\ kv = [embedding |-> KvMissing, query |-> KvMissing]
    /\ DayStart

NextIndexPair ==
    \E r \in Workers :
         \/ IndexStartPair(r)
         \/ AppendSelect(r)
         \/ AppendStatus(r)
         \/ DeleteSelect(r)
         \/ DeleteBatch(r)
         \/ DeleteRows(r)
         \/ MarkReady(r)
         \/ InsertFiles(r)
         \/ InsertChunks(r)
         \/ EmbGet(r)
         \/ EmbRun(r)
         \/ EmbPut(r)
         \/ Upsert(r)
         \/ Finalize(r)
         \/ IndexDbFail(r)

SpecIndexPair == InitIndexPair /\ [][NextIndexPair]_vars

\* index requests for one indexed project that bring a new file, once or twice in
\* the list, arriving while another is in flight
MdFile == [path |-> MdPath, content |-> OneChunkContent]

UniqueBodies ==
    { [given |-> {"project_path", "files"}, project_path |-> ProjectPath, force |-> fa[1], append |-> fa[2], files |-> fl] :
          fa \in { <<FALSE, FALSE>>, <<TRUE, FALSE>>, <<FALSE, TRUE>> },
          fl \in { <<MdFile>>, <<MdFile, MdFile>> } }

IndexStartUnique(r) == LowestFree(r) /\ IndexBegin(r, UniqueBodies, MaxPairRequests)

NextUnique ==
    \E r \in Workers :
         \/ IndexStartUnique(r)
         \/ AppendSelect(r)
         \/ AppendStatus(r)
         \/ DeleteSelect(r)
         \/ DeleteBatch(r)
         \/ DeleteRows(r)
         \/ MarkReady(r)
         \/ InsertFiles(r)
         \/ InsertChunks(r)
         \/ EmbGet(r)
         \/ EmbRun(r)
         \/ EmbPut(r)
         \/ Upsert(r)
         \/ Finalize(r)
         \/ IndexDbFail(r)

SpecUnique == InitIndexPair /\ [][NextUnique]_vars

\* the same force request sent twice in succession: the first run in slot 1,
\* the second in slot 2 once the first has answered
ForceBodies ==
    { [given |-> {"project_path", "files"}, project_path |-> ProjectPath, force |-> TRUE, append |-> FALSE, files |-> fl] :
          fl \in FileLists }

IndexStartTwice(r) ==
    \/ r = 1 /\ nreq = 0 /\ IndexBegin(r, ForceBodies, MaxRequests)
    \/ r = 2 /\ nreq = 1 /\ req[1].pc = "done" /\ IndexBegin(r, {req[1].info.body}, MaxRequests)

InitTwice ==
    /\ HarnessIdle
    /\ projects = {}
    /\ files = {}
    /\ chunks = {}
    /\ conversations = {}
    /\ messages = {}
    /\ vectors = {}
    /\ now = StartMs
    /\ nextId = 0
    /\ nreq = 0
    /\ req = [r \in Workers |-> Idle]
    /\ kv \in [embedding : KvStarts, query : {KvMissing}]
    /\ DayStart

NextTwice ==
    \E r \in Workers :
         \/ IndexStartTwice(r)
         \/ DeleteSelect(r)
         \/ DeleteBatch(r)
         \/ DeleteRows(r)
         \/ CreateProject(r)
         \/ MarkReady(r)
         \/ InsertFiles(r)
         \/ InsertChunks(r)
         \/ EmbGet(r)
         \/ EmbRun(r)
         \/ EmbPut(r)
         \/ Upsert(r)
         \/ Finalize(r)
         \/ IndexDbFail(r)

SpecTwice == InitTwice /\ [][NextTwice]_vars

(***************************************************************************)
(* Claims about chunkFile and readFileTool                                 *)
(***************************************************************************)
\* lines start..end (1-based, inclusive) of the file
FileLines(content, start, end) == SubSeq(Split(content), start, end)

ChunkLinesOk(content, c) ==
    /\ c.start_line <= c.end_line
    /\ Split(c.content) = FileLines(content, c.start_line, c.end_line)

(* C1: every chunk chunkFile emits has start_line <= end_line and its      *)
(* content, split on newline, is exactly lines start_line..end_line of the *)
(* file, for every file type and every line length.                        *)
C1_ChunkLines ==
    cpc # "idle" =>
        \A i \in 1..Len(cchunks) : ChunkLinesOk(cfile.content, cchunks[i])

(* C9: chunkFile never emits a chunk whose content is empty or             *)
(* whitespace-only; empty content yields zero chunks.                      *)
C9_NoBlankChunk ==
    cpc # "idle" =>
        \A i \in 1..Len(cchunks) : TrimNonEmpty(cchunks[i].content)

(* C8: for a file that was indexed and has chunk rows, the content          *)
(* readFileTool returns is the original content exactly: lines that two    *)
(* chunks share appear once.                                               *)
C8_RoundTrip ==
    (cpc = "read" /\ cread # Null) => cread.content = cfile.content

(***************************************************************************)
(* Claims about handleIndex, deleteProjectVectors and handleDeleteProject  *)
(***************************************************************************)
\* a handleIndex run in progress, in one of the modes
IndexRunning(q, modes) == q.kind = "index" /\ q.pc \notin {"idle", "done"} /\ q.mode \in modes

\* a handleIndex run that has answered, in one of the modes
IndexAnswered(q, modes) == q.kind = "index" /\ q.pc = "done" /\ q.info.mode \in modes

\* the file_count of the project with this id
FileCountOf(rows, projectId) == { p.file_count : p \in { x \in rows : x.id = projectId } }

\* the paths of the request's files that pass the eligibility filter
EligiblePaths(body) ==
    { body.files[k].path : k \in { j \in 1..Len(body.files) : shouldIndexFile(body.files[j].path) } }

VectorsOfProject(vs, projectId) == { v \in vs : v.metadata.project_id = projectId }

(* C2: at the end of an indexing run the project status is error if any    *)
(* embedding batch or any vector-upsert batch failed during the run, and   *)
(* ready only if no batch of either kind failed.                           *)
C2_FinalStatus ==
    \A r \in Slots :
        (IndexAnswered(req[r], {"new", "append", "stale", "force"}) /\ req[r].code = 200) =>
            \A p \in projects :
                (p.id = req[r].info.projectId) =>
                    p.status = IF req[r].info.embedErrors > 0 \/ req[r].info.errors > 0
                               THEN "error" ELSE "ready"

\* what one step of an append run may do to the store
AppendStepOk(q, after) ==
    LET prePaths == { f.relative_path : f \in ProjectRows(q.pre.files, q.projectId) }
        newFiles == files' \ q.pre.files
    IN  /\ files \subseteq files'
        /\ chunks \subseteq chunks'
        /\ vectors \subseteq vectors'
        /\ \A f \in files' \ files :
              /\ f.project_id = q.projectId
              /\ f.relative_path \notin prePaths
              /\ \E k \in 1..Len(q.body.files) :
                    /\ q.body.files[k].path = f.relative_path
                    /\ hashContent(q.body.files[k].content) = f.content_hash
        /\ \A c \in chunks' \ chunks : \E f \in newFiles : c.file_id = f.id
        /\ \A v \in vectors' \ vectors : \E c \in chunks' \ q.pre.chunks : v.id = c.id
        /\ (after.pc = "done" /\ after.code = 200) =>
              /\ { f.relative_path : f \in newFiles } = EligiblePaths(q.body) \ prePaths
              /\ FileCountOf(projects', q.projectId) = { q.pre.file_count + Cardinality(newFiles) }

(* C3: in append mode on an existing project a file whose path already has *)
(* a File row is skipped whatever its content; every File row, Chunk row   *)
(* and vector present before the request stays as it was; rows and vectors *)
(* are added only for files with new paths; file_count grows by exactly    *)
(* the number of new files.                                                *)
C3_AppendFrame ==
    [][\A r \in Slots :
          IndexRunning(req[r], {"append"}) => AppendStepOk(req[r], req'[r])]_vars

\* an append that skipped a file whose content had changed and added another
C3_Witness ==
    \E r \in Slots :
        /\ IndexAnswered(req[r], {"append"})
        /\ req[r].code = 200
        /\ req[r].info.processed = 1
        /\ \E s \in req[r].info.skipped : \E f \in files :
              /\ f.relative_path = s.path
              /\ f.content_hash # hashContent(s.content)
        /\ FileCountOf(projects, req[r].info.projectId) = {2}

(* C4: a force request without append, and a flagless request on a project *)
(* last indexed more than 3600 seconds ago, has deleted all the project's  *)
(* vectors, File rows and Chunk rows and reset file_count to 0 before any  *)
(* file is processed; when the run completes without failure the File rows *)
(* are exactly the eligible files of the request and no File row, Chunk    *)
(* row or vector from before the request remains.                          *)
C4_FullReindex ==
    \A r \in Slots :
        /\ (IndexRunning(req[r], {"force", "stale"}) /\ req[r].pc \in {"mark_ready", "insert_files"} /\ req[r].i = 0) =>
              /\ ProjectRows(files, req[r].projectId) = {}
              /\ ProjectRows(chunks, req[r].projectId) = {}
              /\ VectorsOfProject(vectors, req[r].projectId) = {}
              /\ FileCountOf(projects, req[r].projectId) = {0}
        /\ (/\ IndexAnswered(req[r], {"force", "stale"})
            /\ req[r].code = 200
            /\ req[r].info.embedErrors = 0
            /\ req[r].info.errors = 0) =>
              /\ { f.relative_path : f \in ProjectRows(files, req[r].info.projectId) } = EligiblePaths(req[r].info.body)
              /\ files \cap req[r].info.pre.files = {}
              /\ chunks \cap req[r].info.pre.chunks = {}
              /\ vectors \cap VectorsOfProject(req[r].info.pre.vectors, req[r].info.projectId) = {}

(* C6: after a force or stale re-index, and after a project deletion,      *)
(* every vector of the vector index has the id of a Chunk row that exists, *)
(* whatever the vector-delete batches did.                                 *)
C6_NoOrphanVectors ==
    \A r \in Slots :
        ((req[r].pc = "done" /\ req[r].kind \in {"index", "delete"} /\ req[r].code = 200)
            /\ req[r].info.mode \in {"force", "stale", "delete"}) =>
            \A v \in vectors : \E c \in chunks : c.id = v.id

\* the body of the request that takes this step, if one starts in it
StartedBody(after) == IF after.pc = "done" THEN after.info.body ELSE after.body

\* a valid request with neither flag arrives for a project indexed less than 3600 s ago
RecentRequestStarts(r) ==
    /\ nreq' = nreq + 1
    /\ req'[r].kind = "index"
    /\ StartedBody(req'[r]) # Unparseable
    /\ LET body == StartedBody(req'[r])
       IN  /\ body.given = {"project_path", "files"}
           /\ Len(body.files) > 0
           /\ ~body.force
           /\ ~body.append
           /\ \E p \in projects :
                 /\ p.path = body.project_path
                 /\ p.last_indexed_at > 0
                 /\ now - p.last_indexed_at * 1000 < 3600 * 1000

(* C10: a request with neither force nor append for an existing project    *)
(* indexed less than 3600 seconds ago returns the recently-indexed         *)
(* response and does no work: the relational store, the vector index and   *)
(* the quota counters are as they were and no embedding call is started.   *)
C10_RecentNoWork ==
    [][\A r \in Slots :
          RecentRequestStarts(r) =>
              /\ req'[r].pc = "done"
              /\ req'[r].code = 200
              /\ req'[r].msg = "Project was indexed recently"
              /\ UNCHANGED <<dbVars, vectors, kv>>]_vars

\* the short-circuit taken half an hour after a completed index
C10_Witness ==
    \E r \in Slots :
        /\ IndexAnswered(req[r], {"recent"})
        /\ req[r].msg = "Project was indexed recently"
        /\ \E p \in projects :
              /\ p.path = req[r].info.body.project_path
              /\ p.status = "ready"
              /\ p.file_count > 0
              /\ NowSeconds(now) - p.last_indexed_at = RECENT_SECONDS \div 2

(***************************************************************************)
(* Claims about generateEmbeddings                                         *)
(***************************************************************************)
\* what the quota check of a direct call must do with stored count c and n texts
QuotaStepOk(q, after) ==
    LET c == KvCount(kv.embedding)
        n == q.emb.n
    IN  IF c + n > 7000
        THEN /\ after.pc = "done"
             /\ after.code = 500
             /\ after.msg = "Daily embedding limit reached"
             /\ kv' = kv
        ELSE after.pc = "emb_run"

(* C5: generateEmbeddings with stored count c and n > 0 texts fails with   *)
(* the quota error when c + n > 7000, before the embedding service is      *)
(* called and with the counter unchanged; when c + n <= 7000, 7000 itself  *)
(* included, it goes on to call the service.                               *)
C5_Quota ==
    [][\A r \in Slots :
          (req[r].kind = "embed" /\ req[r].pc = "emb_get") => QuotaStepOk(req[r], req'[r])]_vars

\* five texts refused with the counter two below the limit
C5_Witness ==
    \E r \in Slots :
        /\ req[r].pc = "done"
        /\ req[r].kind = "embed"
        /\ req[r].msg = "Daily embedding limit reached"
        /\ req[r].info.n = 5
        /\ kv.embedding = KvString(DAILY_EMBEDDING_LIMIT - 2)

(***************************************************************************)
(* Claims about handleQuery                                                *)
(***************************************************************************)
\* the rows of a loaded history
HistoryRows(loaded) == UNION { loaded[k] : k \in 1..Len(loaded) }

\* the rows H are the 10 most recent of M, and loaded lists them oldest first
MostRecentAscending(loaded, M) ==
    LET H == HistoryRows(loaded)
    IN  /\ H \subseteq M
        /\ Cardinality(H) = Min(10, Cardinality(M))
        /\ \A h \in H : \A o \in M \ H : o.created_at <= h.created_at
        /\ \A i, j \in 1..Len(loaded) :
              (i < j) => \A a \in loaded[i] : \A b \in loaded[j] : a.created_at <= b.created_at

(* C7: when a query names a conversation, the history loaded for it is the *)
(* 10 most recent messages of that conversation, in ascending creation     *)
(* order; of more than 10 messages the oldest are the ones left out.       *)
C7_RecentHistory ==
    \A r \in Slots :
        (req[r].kind = "query" /\ req[r].pc = "llm_get" /\ req[r].body.conversation_id # Undefined) =>
            MostRecentAscending(req[r].conversationHistory,
                                ConversationMessages(messages, req[r].body.conversation_id))

(***************************************************************************)
(* Claims about the early return of handleIndex                            *)
(***************************************************************************)
\* an append run for which every eligible incoming path already has a File row
NothingNewToAppend(q) ==
    /\ IndexRunning(q, {"append"})
    /\ EligiblePaths(q.body) \subseteq { f.relative_path : f \in ProjectRows(q.pre.files, q.projectId) }

\* what one step of such a run may do
NoNewFilesStepOk(q, after) ==
    /\ after.pc \in {"append_select", "append_status", "mark_ready", "done"}
    /\ UNCHANGED <<files, chunks, vectors, kv>>
    /\ after.pc = "done" =>
          \/ /\ after.code = 200
             /\ after.msg = "No new files to index"
             /\ after.info.processed = 0
             /\ q.inserted = 0
             /\ \A p \in projects' : (p.id = q.projectId) => p.status = "ready"
          \/ /\ after.code = 500
             /\ after.msg = "Indexing failed"

(* C11: an append request for an existing project in which every eligible  *)
(* incoming path is already present sets the status to ready and returns   *)
(* the no-new-files result with zero vectors inserted; no step of it calls *)
(* the embedding service or the vector index (the only other ending is a   *)
(* relational-store call that throws).                                     *)
C11_AppendNothingNew ==
    [][\A r \in Slots : NothingNewToAppend(req[r]) => NoNewFilesStepOk(req[r], req'[r])]_vars

\* an append of a file already indexed, answered with the no-new-files result
C11_Witness ==
    \E r \in Slots :
        /\ IndexAnswered(req[r], {"append"})
        /\ req[r].msg = "No new files to index"
        /\ req[r].info.skipped # {}
        /\ ProjectRows(files, req[r].info.projectId) # {}
        /\ \A p \in projects : (p.id = req[r].info.projectId) => p.status = "ready"

(***************************************************************************)
(* Claims about the messages handleQuery stores                            *)
(***************************************************************************)
\* each conversation counts the Message rows it has
MessageCountsMatch ==
    \A c \in conversations : c.message_count = Cardinality(ConversationMessages(messages, c.id))

(* C12: the user message, the assistant message and the message_count      *)
(* increment of a query are one atomic batch: in every reachable state,    *)
(* after a failed write and under interleaved queries on one conversation  *)
(* too, each conversation's message_count equals the number of its Message *)
(* rows; every step keeps the Message rows there were, unchanged.          *)
C12_MessageCount ==
    /\ []MessageCountsMatch
    /\ [][messages \subseteq messages']_vars

\* two queries on one conversation that overlapped: each loaded the history
\* before the other saved, and both saved
C12_Witness ==
    \E c \in conversations :
        /\ c.message_count = 6
        /\ \A r \in Workers :
              /\ req[r].kind = "query"
              /\ req[r].pc = "done"
              /\ req[r].code = 200
              /\ req[r].msg = "answer"
              /\ req[r].info.body.conversation_id = c.id
              /\ Cardinality(HistoryRows(req[r].info.conversationHistory)) = 2

(***************************************************************************)
(* Claims about the validation of handleIndex                              *)
(***************************************************************************)
\* the body could not be parsed, or has no project_path, or no file
InvalidIndexBody(body) ==
    \/ body = Unparseable
    \/ "project_path" \notin body.given
    \/ body.project_path = <<>>
    \/ "files" \notin body.given
    \/ Len(body.files) = 0

\* an index request arrives in this step, its body invalid
InvalidRequestStarts(r) ==
    /\ nreq' = nreq + 1
    /\ req'[r].kind = "index"
    /\ InvalidIndexBody(StartedBody(req'[r]))

(* C13: an index request whose body cannot be read or parsed, or lacks     *)
(* project_path, or has a missing or empty files list, is answered with a  *)
(* 4xx status and has no side effect: the relational store, the vector     *)
(* index and the cache are as they were, and no embedding call is started. *)
C13_InvalidRejected ==
    [][\A r \in Slots :
          InvalidRequestStarts(r) =>
              /\ req'[r].pc = "done"
              /\ req'[r].code >= 400
              /\ req'[r].code < 500
              /\ UNCHANGED <<dbVars, vectors, kv>>]_vars

(***************************************************************************)
(* Claims about a run of handleIndex that fails                            *)
(***************************************************************************)
\* the positions of a run that has written status indexing and not yet the final status
StatusIndexingPcs ==
    {"mark_ready", "insert_files", "insert_chunks", "emb_get", "emb_run", "emb_put", "upsert", "finalize"}

\* the status of the project with this id
StatusOf(rows, projectId) == { p.status : p \in { x \in rows : x.id = projectId } }

\* this step ends the run of slot r with the 500 of the catch
FailsMidRun(r) ==
    /\ IndexRunning(req[r], {"new", "append", "stale", "force"})
    /\ req[r].pc \in StatusIndexingPcs
    /\ req'[r].pc = "done"
    /\ req'[r].code = 500

(* C14: a run that fails with an exception after it set the status to      *)
(* indexing and before its final status write leaves the status indexing;  *)
(* while no request is running nothing resets it (the project rows stay as *)
(* they are, whatever time passes); a later force request that runs to     *)
(* completion leaves the status ready or error.                            *)
C14_StuckIndexing ==
    /\ [][\A r \in Slots : FailsMidRun(r) => StatusOf(projects', req[r].projectId) = {"indexing"}]_vars
    /\ [][(\A r \in Slots : req[r].pc \in {"idle", "done"}) => projects' = projects]_vars
    /\ [](\A r \in Slots :
            (IndexAnswered(req[r], {"force"}) /\ req[r].code = 200) =>
                StatusOf(projects, req[r].info.projectId) \subseteq {"ready", "error"})

\* a force request completed on a project whose first run had stored files and
\* then failed: file_count was never written, the status was still indexing
C14_Witness ==
    \E r \in Slots :
        /\ IndexAnswered(req[r], {"force"})
        /\ req[r].code = 200
        /\ nreq = 2
        /\ ProjectRows(req[r].info.pre.files, req[r].info.projectId) # {}
        /\ req[r].info.pre.file_count = 0
        /\ StatusOf(projects, req[r].info.projectId) = {"ready"}

(***************************************************************************)
(* Claims about index requests that overlap                                *)
(***************************************************************************)
\* a run of another slot is in flight for this project
OtherRunInFlight(r, projectId) ==
    \E o \in Workers \ {r} :
        /\ IndexRunning(req[o], {"new", "append", "stale", "force"})
        /\ req[o].projectId = projectId

\* the request arriving at slot r is admitted by the project row alone
AdmittedByRowAlone(r) ==
    \A p \in projects :
        (/\ nreq' = nreq + 1
         /\ req'[r].kind = "index"
         /\ p.path = StartedBody(req'[r]).project_path
         /\ OtherRunInFlight(r, p.id)) =>
            LET body == StartedBody(req'[r])
            IN  IF body.append THEN req'[r].pc = "append_select"
                ELSE IF body.force THEN req'[r].pc = "delete_select"
                ELSE IF p.last_indexed_at > 0 /\ now - p.last_indexed_at * 1000 < 3600 * 1000
                THEN req'[r].pc = "done" /\ req'[r].msg = "Project was indexed recently"
                ELSE req'[r].pc = "delete_select"

\* what the steps of slot r that act on an earlier read do
ActsOnItsRead(r) ==
    LET q == req[r]
        after == req'[r]
    IN  /\ (q.pc = "append_select" /\ after.pc = "append_status") =>
              after.existingFilePaths = { f.relative_path : f \in ProjectRows(files, q.projectId) }
        /\ (q.pc = "append_status" /\ after.pc \in {"mark_ready", "insert_files"}) =>
              { after.fileRecords[k].relative_path : k \in 1..Len(after.fileRecords) }
                  = EligiblePaths(q.body) \ q.existingFilePaths
        /\ (q.pc = "delete_rows" /\ after.pc \in {"mark_ready", "insert_files"}) =>
              /\ ProjectRows(files', q.projectId) = {}
              /\ ProjectRows(chunks', q.projectId) = {}

(* C15: the recency check and the append dedup check are read-then-act     *)
(* without locking. A request arriving while a run for the same project is *)
(* in flight is admitted by the project row alone; an append run inserts   *)
(* the eligible paths absent when it read the File rows, whatever was      *)
(* inserted since; a flagless or force run deletes every File and Chunk    *)
(* row of the project, those of the other run included. So two overlapping *)
(* requests can both pass the check and both delete, or both execute the   *)
(* INSERT of a File row for one new path.                                  *)
C15_ReadThenAct ==
    [][\A r \in Workers :
          (req[r].kind \in {"none", "index"}) => (AdmittedByRowAlone(r) /\ ActsOnItsRead(r))]_vars

\* two flagless requests both passed the recency check, both deleted and both
\* completed; each found the File rows of the earlier indexing, so neither began
\* after the other had ended (it would have been answered "indexed recently")
C15_Witness ==
    /\ nreq = 2
    /\ \A r \in Workers :
          /\ IndexAnswered(req[r], {"stale"})
          /\ req[r].code = 200
          /\ req[r].msg = "complete"
          /\ req[r].info.deleteErrors = 0
          /\ req[r].info.pre.files # {}
          /\ \A f \in req[r].info.pre.files : f.indexed_at = NowSeconds(StartMs)

\* two append requests both found the new path absent and both reached its INSERT
BothAppendSamePath ==
    \A r \in Workers :
        /\ IndexRunning(req[r], {"append"})
        /\ req[r].pc = "insert_files"
        /\ \E k \in 1..Len(req[r].fileRecords) : req[r].fileRecords[k].relative_path = MdPath

(***************************************************************************)
(* Claims about generateEmbeddings calls that overlap                      *)
(***************************************************************************)
\* what the steps of the call in slot r do with the counter
CounterStepOk(r) ==
    LET q == req[r]
        after == req'[r]
    IN  /\ (q.pc = "emb_get" /\ after # q) =>
              /\ kv' = kv
              /\ IF KvCount(kv.embedding) + q.emb.n > 7000
                 THEN after.pc = "done" /\ after.code = 500
                 ELSE after.pc = "emb_run" /\ after.emb.currentCount = KvCount(kv.embedding)
        /\ (q.pc = "emb_run" /\ after # q) => kv' = kv
        /\ (q.pc = "emb_put" /\ after # q) =>
              /\ kv'.embedding = KvString(q.emb.currentCount + q.emb.n)
              /\ after.pc = "done" /\ after.code = 200

(* C16: the daily embedding counter is updated by read-then-write, not by  *)
(* an atomic increment: the quota check compares the stored value as read, *)
(* whatever calls are in flight, and the write stores the value read plus  *)
(* the call's texts, whatever was written since. Two overlapping calls can *)
(* so both pass the check on one stored value, the later write overwrites  *)
(* the earlier, the counter ends below the number of texts embedded, and   *)
(* more than 7000 texts are embedded in the day.                           *)
C16_LastWriteWins ==
    [][\A r \in Workers : (req[r].kind = "embed") => CounterStepOk(r)]_vars

\* two calls of two texts each both read 6998 and both succeeded: 7002 texts are
\* embedded and the counter says 7000
C16_Witness ==
    /\ \A r \in Workers :
          /\ req[r].pc = "done"
          /\ req[r].kind = "embed"
          /\ req[r].code = 200
          /\ req[r].info.n = 2
          /\ req[r].info.currentCount = DAILY_EMBEDDING_LIMIT - 2
    /\ kv.embedding = KvString(DAILY_EMBEDDING_LIMIT)
    /\ embedded = DAILY_EMBEDDING_LIMIT + 2

(***************************************************************************)
(* Claims about the counter over a day of generateEmbeddings calls         *)
(***************************************************************************)
\* this step ends the call of slot r
CallEnds(r) == req[r].kind = "embed" /\ req[r].pc # "done" /\ req'[r].pc = "done"

\* what a step does to the counter: the write of a successful call raises it
\* by the call's texts, every other step leaves it
CounterAccountingOk(r) ==
    /\ (CallEnds(r) /\ req'[r].code = 200) =>
          KvCount(kv'.embedding) = KvCount(kv.embedding) + req[r].emb.n
    /\ (CallEnds(r) /\ req'[r].code # 200) => kv' = kv
    /\ ~CallEnds(r) => kv' = kv

(* C17: over non-overlapping generateEmbeddings calls within one UTC day a *)
(* successful call of n texts raises the stored counter by exactly n and a *)
(* call that fails, by the quota or by the embedding service, leaves it    *)
(* unchanged; the counter equals the number of texts embedded that day     *)
(* (outside the moment between the service's answer and the counter's      *)
(* write) and never exceeds 7000.                                          *)
C17_CounterAccounting ==
    /\ [][\A r \in Slots : CounterAccountingOk(r)]_vars
    /\ []((\A r \in Slots : req[r].pc # "emb_put") => KvCount(kv.embedding) = embedded)
    /\ [](KvCount(kv.embedding) <= 7000 /\ embedded <= 7000)

\* the third call of the day read 6995, embedded five texts and wrote 7000
C17_Witness ==
    \E r \in Slots :
        /\ nreq = 3
        /\ req[r].pc = "done"
        /\ req[r].kind = "embed"
        /\ req[r].code = 200
        /\ req[r].info.n = 5
        /\ req[r].info.currentCount = 6995
        /\ embedded = 7000
        /\ kv.embedding = KvString(7000)

(***************************************************************************)
(* Claims about the batches of an indexing run                             *)
(***************************************************************************)
\* the ids of the records of a list
IdsOf(records) == { records[k].id : k \in 1..Len(records) }

\* the chunks of the embedding batch the run is at
EmbeddingBatch(q) == SubSeq(q.allChunks, q.i + 1, Min(q.i + 50, Len(q.allChunks)))

\* a step of generateEmbeddings in an indexing run, and what follows it
EmbeddingStepOk(q, after) ==
    /\ files' = files
    /\ chunks' = chunks
    /\ after.pc # "done"
    /\ (after.pc \in {"emb_run", "emb_put"}) => (after.i = q.i /\ after.vectorResults = q.vectorResults)
    /\ (after.pc \notin {"emb_run", "emb_put"}) =>
          \* the batch is over: it failed and left no vector, or succeeded and left its own
          /\ \/ /\ after.embedErrors = q.embedErrors + 1
                /\ q.pc \in {"emb_get", "emb_run"}
                /\ after.vectorResults = q.vectorResults
             \/ /\ after.embedErrors = q.embedErrors
                /\ q.pc = "emb_put"
                /\ Len(after.vectorResults) = Len(q.vectorResults) + Len(EmbeddingBatch(q))
                /\ IdsOf(after.vectorResults) = IdsOf(q.vectorResults) \cup IdsOf(EmbeddingBatch(q))
          \* the next batch is attempted, if there is one
          /\ IF q.i + 50 < Len(q.allChunks)
             THEN after.pc = "emb_get" /\ after.i = q.i + 50
             ELSE after.pc = (IF Len(after.vectorResults) > 0 THEN "upsert" ELSE "finalize")

(* C18: an embedding batch that fails during an indexing run, by the quota *)
(* or by the service, does not abort the run: the File and Chunk rows      *)
(* stored stay, the next embedding batch is attempted, and so every later  *)
(* one; the vectors handed to the upsert are those of the batches that     *)
(* succeeded, and when no upsert batch fails they are all in the index at  *)
(* the end of the run.                                                     *)
C18_EmbeddingFailureTolerated ==
    [][\A r \in Slots :
          /\ (IndexRunning(req[r], {"new", "append", "stale", "force"})
                  /\ req[r].pc \in {"emb_get", "emb_run", "emb_put"} /\ req'[r] # req[r]) =>
                EmbeddingStepOk(req[r], req'[r])
          /\ (IndexRunning(req[r], {"new", "append", "stale", "force"})
                  /\ req[r].pc = "finalize" /\ req'[r].pc = "done" /\ req'[r].code = 200 /\ req[r].errors = 0) =>
                /\ IdsOf(req[r].vectorResults) \subseteq { v.id : v \in vectors' }
                /\ ProjectRows(files', req[r].projectId) # {}
                /\ IdsOf(req[r].allChunks) \subseteq { c.id : c \in chunks' }]_vars

\* a run whose first two embedding batches were refused by the quota and whose
\* third was embedded: 6 File rows, 102 Chunk rows and the last 2 vectors
C18_Witness ==
    \E r \in Slots :
        /\ IndexAnswered(req[r], {"new"})
        /\ req[r].code = 200
        /\ req[r].info.embedErrors = 2
        /\ req[r].info.errors = 0
        /\ Cardinality(files) = BigFileCount
        /\ Cardinality(chunks) = 102
        /\ Cardinality(vectors) = 2
        /\ kv.embedding = KvString(DAILY_EMBEDDING_LIMIT)
        /\ embedded = DAILY_EMBEDDING_LIMIT

\* the records of the upsert batch the run is at
UpsertBatch(q) == SubSeq(q.vectorResults, q.i + 1, Min(q.i + 100, Len(q.vectorResults)))

\* one batch of upsertVectors, and what follows it
UpsertStepOk(q, after) ==
    LET batch == UpsertBatch(q)
    IN  /\ after.pc # "done"
        /\ Len(batch) >= 1
        /\ Len(batch) <= 100
        /\ q.inserted + q.errors = q.i
        /\ \/ /\ after.inserted = q.inserted + Len(batch)
              /\ after.errors = q.errors
              /\ SeqRange(batch) \subseteq vectors'
           \/ /\ after.errors = q.errors + Len(batch)
              /\ after.inserted = q.inserted
              /\ vectors' = vectors
        /\ after.vectorResults = q.vectorResults
        /\ IF q.i + 100 < Len(q.vectorResults)
           THEN after.pc = "upsert" /\ after.i = q.i + 100
           ELSE /\ after.pc = "finalize"
                /\ after.inserted + after.errors = Len(q.vectorResults)

(* C19: upsertVectors takes the records in consecutive batches of at most  *)
(* 100, from the first record on; a batch whose upsert throws adds its     *)
(* whole size to errors and the next batch is still attempted; no batch    *)
(* failure makes upsertVectors throw; on return inserted + errors is the   *)
(* number of records and inserted the total size of the batches upserted.  *)
C19_UpsertBatches ==
    [][\A r \in Slots :
          /\ (req[r].kind = "index" /\ req[r].pc = "upsert" /\ req'[r] # req[r]) =>
                UpsertStepOk(req[r], req'[r])
          /\ (req[r].kind = "index" /\ req[r].pc \notin {"upsert", "done", "idle"} /\ req'[r].pc = "upsert") =>
                (req'[r].i = 0 /\ req'[r].inserted = 0 /\ req'[r].errors = 0)]_vars

\* 102 records: the batch of 100 threw, the batch of 2 was upserted
C19_Witness ==
    \E r \in Slots :
        /\ req[r].kind = "index"
        /\ req[r].pc = "finalize"
        /\ Len(req[r].vectorResults) = 102
        /\ req[r].errors = 100
        /\ req[r].inserted = 2
        /\ Cardinality(vectors) = 2

\* the ids of the delete batch the run is at
DeleteIdsBatch(q) == SubSeq(q.chunkIds, q.i + 1, Min(q.i + 100, Len(q.chunkIds)))

\* the steps of deleteProjectVectors in handleIndex, and the delete of the rows after it
DeleteStepOk(q, after) ==
    /\ (q.pc = "delete_select" /\ after.pc # "done") =>
          /\ SeqRange(after.chunkIds) = { c.id : c \in ProjectRows(chunks, q.projectId) }
          /\ Len(after.chunkIds) = Cardinality(ProjectRows(chunks, q.projectId))
          /\ after.i = 0
          /\ vectors' = vectors
          /\ after.pc = (IF Len(after.chunkIds) = 0 THEN "delete_rows" ELSE "delete_batch")
    /\ (q.pc = "delete_batch") =>
          LET batch == DeleteIdsBatch(q)
          IN  /\ after.pc # "done"
              /\ Len(batch) >= 1
              /\ Len(batch) <= 100
              /\ \/ vectors' = { v \in vectors : v.id \notin SeqRange(batch) }
                 \/ vectors' = vectors /\ after.deleteErrors = q.deleteErrors + 1
              /\ after.chunkIds = q.chunkIds
              /\ IF q.i + 100 < Len(q.chunkIds)
                 THEN after.pc = "delete_batch" /\ after.i = q.i + 100
                 ELSE after.pc = "delete_rows"
    /\ (q.pc = "delete_rows" /\ after.pc # "done") =>
          /\ ProjectRows(chunks', q.projectId) = {}
          /\ vectors' = vectors

(* C20: deleteProjectVectors reads all the chunk ids of the project before *)
(* it deletes any vector and deletes them in batches of at most 100; a     *)
(* batch whose delete fails is skipped, every remaining batch is attempted *)
(* and the function returns normally; the caller then deletes the Chunk    *)
(* rows of the project, and the vectors of a failed batch stay.            *)
C20_DeleteBatches ==
    [][\A r \in Slots :
          (req[r].kind = "index" /\ req[r].pc \in {"delete_select", "delete_batch", "delete_rows"}
              /\ req'[r] # req[r]) =>
                DeleteStepOk(req[r], req'[r])]_vars

\* a force re-index of 102 chunks: the delete of the first 100 ids failed, the
\* last 2 were deleted, the Chunk rows are gone and 100 vectors stay
C20_Witness ==
    \E r \in Slots :
        /\ IndexRunning(req[r], {"force"})
        /\ req[r].pc = "insert_files"
        /\ req[r].i = 0
        /\ Len(req[r].chunkIds) = 102
        /\ req[r].deleteErrors = 1
        /\ chunks = {}
        /\ Cardinality(vectors) = 100
        /\ \A v \in vectors : \E k \in 1..100 : req[r].chunkIds[k] = v.id

(***************************************************************************)
(* Claims about the line ranges of chunkFile                               *)
(***************************************************************************)
\* the line numbers of the file, 1-based
LineNumbers(content) == 1..Len(Split(content))

\* the lines inside the [start_line, end_line] range of some chunk
CoveredLines(cs) == UNION { cs[i].start_line..cs[i].end_line : i \in 1..Len(cs) }

\* the lines of the file no chunk's range holds
UncoveredLines(content, cs) == LineNumbers(content) \ CoveredLines(cs)

BoundariesOf(file) == detectCodeBoundaries(Split(file.content), file.path)

\* the line indices (0-based) after line 0 that match a pattern of the file's language
Candidates(file) ==
    { i \in 1..(Len(Split(file.content)) - 1) :
          HasLangPatterns(file.path) /\ MatchesPattern(Split(file.content)[i + 1]) }

\* the last boundary accepted before line index i
PreviousBoundary(b, i) ==
    CHOOSE x \in SeqRange(b) : x < i /\ \A y \in SeqRange(b) : y < i => y <= x

\* line 0 is the first boundary, and a candidate is a boundary exactly when
\* it lies at least gap lines after the boundary accepted before it
AcceptedAtDistance(file, gap) ==
    LET b == BoundariesOf(file)
    IN  /\ b[1] = 0
        /\ \A i \in Candidates(file) :
              (i \in SeqRange(b)) <=> (i - PreviousBoundary(b, i) >= gap)

(* C22, as stated: line 0 is the first boundary and a later line matching  *)
(* a pattern is accepted exactly when it lies at least 5 lines after the   *)
(* previously accepted boundary: 5 lines after is accepted, 4 is rejected. *)
C22_AcceptedFiveAfter ==
    cpc # "idle" => AcceptedAtDistance(cfile, BOUNDARY_GAP)

(* C22, amended: line 0 is the first boundary and a later line matching a  *)
(* pattern is accepted exactly when its index exceeds the previously       *)
(* accepted boundary's by more than 5: 6 lines after is accepted, 5 lines  *)
(* after is rejected.                                                      *)
C22_AcceptedSixAfter ==
    cpc # "idle" => AcceptedAtDistance(cfile, BOUNDARY_GAP + 1)

\* candidates 5 and 6 lines after line 0: the first is rejected, the second accepted
C22_Witness ==
    /\ cpc = "chunked"
    /\ {BOUNDARY_GAP, BOUNDARY_GAP + 1} \subseteq Candidates(cfile)
    /\ BoundariesOf(cfile) = <<0, BOUNDARY_GAP + 1>>

\* a code file none of whose lines matches a boundary pattern of its language
NoBoundaryPattern(file) ==
    /\ getFileType(file.path) = "code"
    /\ ~(HasLangPatterns(file.path)
          /\ \E i \in 1..Len(Split(file.content)) : MatchesPattern(Split(file.content)[i]))

\* lines from..to of the file, joined
JoinedLines(content, from, to) == Join(SubSeq(Split(content), from, to))

\* chunk k is a window of the file: it starts with lines the chunk before it
\* held, and it was closed at the first line added to it at which its joined
\* length reached the budget, or at the end of the file
WindowClosedOk(content, cs, k) ==
    LET c == cs[k]
        firstNew == IF k = 1 THEN 1 ELSE cs[k - 1].end_line + 1
    IN  /\ c.chunk_type = "code"
        /\ IF k = 1 THEN c.start_line = 1 ELSE c.start_line <= firstNew
        /\ StrLen(JoinedLines(content, c.start_line, c.end_line)) >= MAX_CHUNK_CHARS
              \/ c.end_line = Len(Split(content))
        /\ \A j \in firstNew..(c.end_line - 1) :
              StrLen(JoinedLines(content, c.start_line, j)) < MAX_CHUNK_CHARS

\* the last n lines of chunk a are the first n lines of chunk b, and they share no more
SharesLines(a, b, n) ==
    /\ b.start_line = a.end_line - n + 1
    /\ a.start_line <= b.start_line
    /\ a.end_line <= b.end_line

\* the lines a window carries over to the next: OVERLAP_LINES, or all it has
CarriedOver(a) == Min(OVERLAP_LINES, a.end_line - a.start_line + 1)

(* C23, as stated: for a code file in which no line matches a boundary     *)
(* pattern the chunks are the windows of the whole file, each closed at    *)
(* the first line where its joined length reaches 2048 characters or at    *)
(* the end of the file, and two consecutive chunks share exactly 3 lines,  *)
(* except possibly the last pair.                                          *)
C23_WindowsShareThree ==
    (cpc # "idle" /\ NoBoundaryPattern(cfile)) =>
        /\ \A k \in 1..Len(cchunks) : WindowClosedOk(cfile.content, cchunks, k)
        /\ \A k \in 1..(Len(cchunks) - 2) : SharesLines(cchunks[k], cchunks[k + 1], OVERLAP_LINES)

(* C23, amended: the same windows, two consecutive chunks sharing exactly  *)
(* the lines the earlier one carries over: its last 3 lines, or all its    *)
(* lines when it has fewer than 3 (except possibly the last pair).         *)
C23_WindowsShareCarried ==
    (cpc # "idle" /\ NoBoundaryPattern(cfile)) =>
        /\ \A k \in 1..Len(cchunks) : WindowClosedOk(cfile.content, cchunks, k)
        /\ \A k \in 1..(Len(cchunks) - 2) :
              SharesLines(cchunks[k], cchunks[k + 1], CarriedOver(cchunks[k]))

\* a file of a language with patterns whose windows share 3 lines, the last pair aside
C23_Witness ==
    /\ cpc = "chunked"
    /\ NoBoundaryPattern(cfile)
    /\ HasLangPatterns(cfile.path)
    /\ Len(cchunks) >= 4
    /\ \A k \in 1..(Len(cchunks) - 2) :
          /\ CarriedOver(cchunks[k]) = OVERLAP_LINES
          /\ cchunks[k + 1].end_line > cchunks[k].end_line

\* the line indices (0-based) at which a section of a markdown file starts:
\* line 0 and every later line matching the heading pattern
SectionStarts(lines) == {0} \cup { i \in 1..(Len(lines) - 1) : MatchesHeader(lines[i + 1]) }

\* the line index (0-based, exclusive) at which the k-th section ends
SectionEnd(lines, starts, k) == IF k < Len(starts) THEN starts[k + 1] ELSE Len(lines)

\* a markdown file each of whose sections is within the budget and not blank
SectionsFit(file) ==
    LET lines == Split(file.content)
        starts == SortedSeq(SectionStarts(lines))
    IN  /\ getFileType(file.path) = "markdown"
        /\ \A k \in 1..Len(starts) :
              LET sec == Join(Slice(lines, starts[k], SectionEnd(lines, starts, k)))
              IN  StrLen(sec) <= MAX_CHUNK_CHARS /\ TrimNonEmpty(sec)

\* one chunk per section, tagged markdown, the ranges disjoint and contiguous
\* from line 1 to the last line
OneChunkPerSection(file, cs) ==
    LET lines == Split(file.content)
        starts == SortedSeq(SectionStarts(lines))
    IN  /\ Len(cs) = Len(starts)
        /\ \A k \in 1..Len(cs) :
              /\ cs[k].chunk_type = "markdown"
              /\ cs[k].start_line = starts[k] + 1
              /\ cs[k].start_line <= cs[k].end_line
              /\ cs[k].start_line = IF k = 1 THEN 1 ELSE cs[k - 1].end_line + 1
        /\ cs[Len(cs)].end_line = Len(lines)

(* C24: for a markdown file whose heading-delimited sections are all       *)
(* within the size budget and not blank, chunkFile emits exactly one chunk *)
(* per section, each tagged markdown, with disjoint contiguous line ranges *)
(* running from line 1 to the last line; three sections of 10 lines give   *)
(* exactly 3 chunks.                                                       *)
C24_OneChunkPerSection ==
    (cpc # "idle" /\ SectionsFit(cfile)) => OneChunkPerSection(cfile, cchunks)

\* the file of three sections of ten lines, chunked into lines 1-10, 11-20 and 21-30
C24_Witness ==
    /\ cpc = "chunked"
    /\ cfile.content = Join(ThreeSections)
    /\ SectionsFit(cfile)
    /\ Len(cchunks) = 3
    /\ <<cchunks[1].start_line, cchunks[1].end_line>> = <<1, 10>>
    /\ <<cchunks[2].start_line, cchunks[2].end_line>> = <<11, 20>>
    /\ <<cchunks[3].start_line, cchunks[3].end_line>> = <<21, 30>>

(***************************************************************************)
(* Claims about repeated runs of handleIndex                               *)
(***************************************************************************)
\* a run that answered 200 and in which no delete, embedding or upsert batch failed
CompletedWithoutFailure(q) ==
    /\ IndexAnswered(q, {"new", "force"})
    /\ q.code = 200
    /\ q.info.deleteErrors = 0
    /\ q.info.embedErrors = 0
    /\ q.info.errors = 0

\* the same force request ran twice in succession, both runs without a failed batch
RanTwice ==
    /\ CompletedWithoutFailure(req[1])
    /\ CompletedWithoutFailure(req[2])
    /\ req[1].info.body.force /\ req[2].info.body = req[1].info.body

(* C25: a force=true index of the same project with the same file list,    *)
(* run twice in succession with no batch failures, gives the same chunk    *)
(* count and the same file_count after each run; the File rows, Chunk rows *)
(* and vectors of the project are as many after the second run as after    *)
(* the first.  The chunk count of a run is the number of Chunk rows it has *)
(* inserted; the store after the first run is what the second run found.   *)
C25_ForceTwiceSame ==
    RanTwice =>
        LET P == req[2].info.projectId
            first == req[2].info.pre
        IN  /\ req[1].info.projectId = P
            /\ req[2].info.processed = req[1].info.processed
            /\ FileCountOf(projects, P) = {first.file_count}
            /\ Cardinality(ProjectRows(files, P)) = Cardinality(ProjectRows(first.files, P))
            /\ Cardinality(ProjectRows(chunks, P)) = Cardinality(ProjectRows(first.chunks, P))
            /\ Cardinality(VectorsOfProject(vectors, P)) = Cardinality(VectorsOfProject(first.vectors, P))

\* two files of three chunks in all, indexed twice: the rows of the first run replaced
C25_Witness ==
    /\ RanTwice
    /\ req[2].info.mode = "force"
    /\ Cardinality(files) = 2
    /\ Cardinality(chunks) = 4
    /\ Cardinality(vectors) = 4
    /\ Cardinality(req[2].info.pre.chunks) = 4
    /\ chunks \cap req[2].info.pre.chunks = {}

(***************************************************************************)
(* C26: a search without matches ends the query                            *)
(***************************************************************************)
\* the query in slot r has its embedding and is about to search
AtSearch(r) == req[r].kind = "query" /\ req[r].pc = "search"

\* the answer of lines 31-37
NotFound(q) == q.kind = "query" /\ q.pc = "done" /\ q.code = 200 /\ q.msg = "no relevant code"

\* the step of a query past its search, when the search did not throw
SearchStep(r) == AtSearch(r) /\ req'[r] # req[r] /\ ~(req'[r].pc = "done" /\ req'[r].code = 500)

\* C26: a vector search that returns no match ends the query in that very step with
\* the fixed not-found answer and no sources; nothing was hydrated, no history was
\* read, no LLM call was made and counted, and no conversation or message row was
\* written; a search that returns matches goes on to hydration with them
C26_NoMatchNoFurtherCall ==
    [][\A r \in Slots :
          SearchStep(r) =>
              IF req'[r].pc = "done"
              THEN /\ NotFound(req'[r])
                   /\ req'[r].info.vectorResults = <<>>
                   /\ req'[r].info.sources = <<>>
                   /\ req'[r].info.context = <<>>
                   /\ req'[r].info.conversationHistory = <<>>
                   /\ UNCHANGED <<dbVars, vectors, kv, nextId>>
              ELSE /\ req'[r].pc = "hydrate"
                   /\ Len(req'[r].vectorResults) > 0]_vars

\* a query that named no conversation was answered "not found" while the index held
\* vectors, and the store holds no conversation and no message
C26_Witness ==
    \E r \in Slots :
        /\ NotFound(req[r])
        /\ req[r].info.body.conversation_id = Undefined
        /\ vectors # {}
        /\ conversations = {}
        /\ messages = {}

(***************************************************************************)
(* C27: context and sources follow the ranking of the vector index         *)
(***************************************************************************)
\* the positions of handleQuery after the context is built
ContextBuiltPcs == {"history", "title", "new_conversation", "llm_get", "llm_run", "llm_put", "save"}

\* the ids of a list of matches, context entries or sources
MatchIds(vectorResults) == [k \in 1..Len(vectorResults) |-> vectorResults[k].id]

ChunkIds(entries) == [k \in 1..Len(entries) |-> entries[k].chunk_id]

\* the ids of the matches that have a chunk row, in the order of the matches
RankedWithRow(vectorResults) ==
    Filter(MatchIds(vectorResults), { id \in SeqRange(MatchIds(vectorResults)) : \E c \in chunks : c.id = id })

\* C27: the context handed to the LLM lists the matches that have a chunk row in the
\* order the vector index ranked them, and the sources of an answer list every match
\* in that order, whatever the order of the rows the relational store returned
C27_RankingOrder ==
    \A r \in Slots :
        /\ (req[r].kind = "query" /\ req[r].pc \in ContextBuiltPcs) =>
               ChunkIds(req[r].context) = RankedWithRow(req[r].vectorResults)
        /\ (req[r].kind = "query" /\ req[r].pc = "done" /\ req[r].code = 200 /\ req[r].msg = "answer") =>
               /\ ChunkIds(req[r].info.context) = RankedWithRow(req[r].info.vectorResults)
               /\ ChunkIds(req[r].info.sources) = MatchIds(req[r].info.vectorResults)

\* an answer whose matches came in descending id order, two of them with a chunk row
\* and one without
C27_Witness ==
    \E r \in Slots :
        /\ req[r].kind = "query" /\ req[r].pc = "done" /\ req[r].code = 200 /\ req[r].msg = "answer"
        /\ Len(req[r].info.vectorResults) = 3
        /\ Len(req[r].info.context) = 2
        /\ req[r].info.vectorResults[1].id > req[r].info.vectorResults[2].id
        /\ req[r].info.vectorResults[2].id > req[r].info.vectorResults[3].id
        /\ req[r].info.context[1].chunk_id > req[r].info.context[2].chunk_id

(***************************************************************************)
(* C28: a query request without a query                                    *)
(***************************************************************************)
\* the body parses and its query is missing, empty or whitespace only
BlankQueryBody(body) ==
    /\ body # Unparseable
    /\ \/ "query" \notin body.given
       \/ body.query = <<>>
       \/ \A i \in 1..Len(body.query) : body.query[i].kind \in {"ws", "nl"}

\* a query request arrives in this step, its query missing or blank
BlankQueryStarts(r) ==
    /\ nreq' = nreq + 1
    /\ req'[r].kind = "query"
    /\ BlankQueryBody(StartedBody(req'[r]))

\* C28: a query request whose query is missing, empty or whitespace only is answered
\* 400 in the step it arrives in: no embedding call is started, and the quota
\* counters, the vector index and the relational store are neither read nor written
C28_BlankQueryRejected ==
    [][\A r \in Slots :
          BlankQueryStarts(r) =>
              /\ req'[r].pc = "done"
              /\ req'[r].code = 400
              /\ req'[r].msg = "Query is required"
              /\ UNCHANGED <<dbVars, vectors, kv, embedded, nextId>>]_vars

\* a whitespace-only query was answered 400
C28_Witness ==
    \E r \in Slots :
        /\ req[r].kind = "query" /\ req[r].pc = "done" /\ req[r].code = 400
        /\ req[r].info.body.query = BlankText

(***************************************************************************)
(* C29: handleDeleteProject                                                *)
(***************************************************************************)
\* handleDeleteProject answers 200 for project id in this step
DeleteSucceeds(r, id) ==
    /\ req[r].kind = "delete" /\ req[r].pc # "done" /\ req[r].projectId = id
    /\ req'[r].pc = "done" /\ req'[r].code = 200

\* handleDeleteProject is called in this step for an id no project has
DeleteOfUnknown(r) ==
    /\ nreq' = nreq + 1
    /\ req'[r].kind = "delete"
    /\ ~\E p \in projects : p.id = (IF req'[r].pc = "done" THEN req'[r].info.projectId ELSE req'[r].projectId)

\* C29: when handleDeleteProject(P) answers 200, the project row of P is gone, no file,
\* chunk or conversation row names P, and every file, chunk and conversation P had,
\* and every message of such a conversation, is gone; called for a project that does
\* not exist, it answers 404 and leaves the store, the index and the counters alone
C29_DeleteCascades ==
    [][\A r \in Slots :
          /\ \A id \in { p.id : p \in projects } :
                DeleteSucceeds(r, id) =>
                    /\ ~\E p \in projects' : p.id = id
                    /\ ProjectRows(files', id) = {}
                    /\ ProjectRows(chunks', id) = {}
                    /\ ProjectRows(conversations', id) = {}
                    /\ \A f \in ProjectRows(files, id) : f \notin files'
                    /\ \A c \in ProjectRows(chunks, id) : c \notin chunks'
                    /\ \A c \in ProjectRows(conversations, id) :
                          /\ ~\E d \in conversations' : d.id = c.id
                          /\ ~\E m \in messages' : m.conversation_id = c.id
          /\ DeleteOfUnknown(r) =>
                /\ req'[r].pc = "done"
                /\ req'[r].code = 404
                /\ UNCHANGED <<dbVars, vectors, kv>>]_vars

\* the project was deleted while it had a conversation with messages: none of its rows
\* is left
C29_Witness ==
    \E r \in Slots :
        /\ req[r].kind = "delete" /\ req[r].pc = "done" /\ req[r].code = 200
        /\ projects = {} /\ files = {} /\ chunks = {}
        /\ conversations = {} /\ messages = {}
        /\ nextId > SeedRun(1).nextId + 2

(***************************************************************************)
(* C30: the daily quota around every call of the services                  *)
(***************************************************************************)
\* slot r's request gets an answer from the embedding service in this step
EmbeddingCalled(r) == req'[r] # req[r] /\ embedded' > embedded

\* slot r's request gets an answer from the LLM service in this step
LlmCalled(r) ==
    /\ req[r].kind = "query" /\ req[r].pc \in LlmCallPcs
    /\ req'[r].pc \notin {req[r].pc, "done"}

\* C30: every call of the embedding service and of the LLM service is made by a
\* request that has just read the service's daily counter and found room under the
\* ceiling, and the request's next step writes the counter, raised by the texts
\* embedded or by one; this holds for queries, for the code search tools and for the
\* generation of a conversation title
C30_EveryCallGuarded ==
    [][\A r \in Slots :
          /\ EmbeddingCalled(r) =>
                /\ req[r].pc = "emb_run"
                /\ ~EmbeddingQuotaExceeded(req[r].emb.currentCount, req[r].emb.n)
                /\ req'[r].pc = "emb_put"
          /\ LlmCalled(r) =>
                /\ req[r].pc = "llm_run"
                /\ ~LlmQuotaExceeded(req[r].llmCount)
                /\ req'[r].pc = "llm_put"
          /\ (req[r].pc = "emb_put" /\ req'[r] # req[r]) =>
                KvCount(kv'.embedding) = req[r].emb.currentCount + req[r].emb.n
          /\ (req[r].pc = "llm_put" /\ req'[r] # req[r] /\ ~(req'[r].pc = "done" /\ req'[r].code = 500)) =>
                KvCount(kv'.query) = req[r].llmCount + 1]_vars

(***************************************************************************)
(* C31: the phases of one run of handleIndex                               *)
(***************************************************************************)
PersistPcs == {"insert_files", "insert_chunks"}

EmbedPcs == {"emb_get", "emb_run", "emb_put"}

\* the position of the chunk with this id in allChunks
ChunkPosition(q, id) == CHOOSE j \in 1..Len(q.allChunks) : q.allChunks[j].id = id

\* every File row and every Chunk row of the run is in the store
RunPersisted(q) ==
    /\ \A k \in 1..Len(q.fileRecords) : \E f \in files : f.id = q.fileRecords[k].id
    /\ \A k \in 1..Len(q.allChunks) : \E c \in chunks : c.id = q.allChunks[k].id

\* no vector of the run is in the index and no upsert batch was sent
NothingUpserted(q) ==
    /\ q.inserted = 0 /\ q.errors = 0
    /\ ~\E v \in vectors : \E k \in 1..Len(q.allChunks) : q.allChunks[k].id = v.id

\* the vectors made so far are those of chunks before position i, in chunk order
VectorsInChunkOrder(q) ==
    /\ \A k \in 1..Len(q.vectorResults) : ChunkPosition(q, q.vectorResults[k].id) <= q.i
    /\ \A k \in 1..(Len(q.vectorResults) - 1) :
          ChunkPosition(q, q.vectorResults[k].id) < ChunkPosition(q, q.vectorResults[k + 1].id)

\* every embedding batch has been answered
EmbeddingFinished(q) ==
    /\ q.embedErrors = 0 => Len(q.vectorResults) = Len(q.allChunks)
    /\ Len(q.vectorResults) + q.embedErrors * EMBEDDING_BATCH_SIZE >= Len(q.allChunks)

\* the final status of the run is not written yet
StatusNotFinal(q) == \A p \in projects : p.id = q.projectId => p.status = "indexing"

PhasesInOrder(q) ==
    /\ q.pc \in PersistPcs =>
          /\ q.vectorResults = <<>> /\ q.embedErrors = 0
          /\ NothingUpserted(q)
          /\ StatusNotFinal(q)
    /\ q.pc \in EmbedPcs =>
          /\ RunPersisted(q)
          /\ q.emb.n = Len(Slice(q.allChunks, q.i, q.i + EMBEDDING_BATCH_SIZE))
          /\ q.emb.n <= 50
          /\ VectorsInChunkOrder(q)
          /\ NothingUpserted(q)
          /\ StatusNotFinal(q)
    /\ q.pc = "upsert" =>
          /\ RunPersisted(q)
          /\ EmbeddingFinished(q)
          /\ StatusNotFinal(q)
    /\ q.pc = "finalize" =>
          /\ RunPersisted(q)
          /\ EmbeddingFinished(q)
          /\ q.inserted + q.errors = Len(q.vectorResults)
          /\ StatusNotFinal(q)

\* C31: within one run of handleIndex, while rows are being inserted no embedding call
\* and no upsert has been made; every embedding call finds all File and Chunk rows of
\* the run in the store, carries the next 50 chunks at most, in chunk order, and no
\* upsert has been made; the upsert begins when every embedding batch is answered;
\* and the final status is written when every upsert batch has been sent
C31_PhasesInOrder ==
    \A r \in Slots : req[r].kind = "index" /\ req[r].pc # "done" => PhasesInOrder(req[r])

\* the third embedding batch of a run of 102 chunks is in flight: two texts, after
\* 100 vectors were made, all 102 chunk rows stored
C31_Witness ==
    \E r \in Slots :
        /\ req[r].kind = "index" /\ req[r].pc = "emb_run"
        /\ Len(req[r].allChunks) = 102
        /\ req[r].i = 100
        /\ req[r].emb.n = 2
        /\ Len(req[r].vectorResults) = 100
        /\ Cardinality(chunks) = 102

(***************************************************************************)
(* C32: the order of the chunks of one file                                *)
(***************************************************************************)
\* the start lines of cs never go down
StartLinesAscend(cs) == \A k \in 1..(Len(cs) - 1) : cs[k].start_line <= cs[k + 1].start_line

\* C32: the chunks chunkFile returns for one file are in non-decreasing start_line
\* order, the sub-chunks of a split span included
C32_StartLinesAscend == cpc \in {"chunked", "read"} => StartLinesAscend(cchunks)

\* a code file with a second boundary whose first span was split: four chunks or more,
\* two of them starting at the same line
C32_Witness ==
    /\ cpc = "chunked"
    /\ cfile.path = TsPath
    /\ Len(cchunks) >= 4
    /\ \E k \in 1..(Len(cchunks) - 1) : cchunks[k].start_line = cchunks[k + 1].start_line
    /\ \E k \in 1..(Len(cchunks) - 1) : cchunks[k].start_line < cchunks[k + 1].start_line

(***************************************************************************)
(* C33: File rows are unique per project and path                          *)
(***************************************************************************)
\* C33: no two File rows have the same project and the same relative path, also when
\* a request lists a path twice and when two requests for the project interleave
C33_UniqueFilePath ==
    \A f \in files : \A g \in files :
        (f.project_id = g.project_id /\ f.relative_path = g.relative_path) => f.id = g.id

\* two append requests that list the new file once ran together: one stored it, the
\* other was refused by the constraint, and the store holds one row for the path
C33_Witness ==
    /\ \A r \in Workers : req[r].kind = "index" /\ req[r].pc = "done" /\ req[r].info.mode = "append"
                          /\ req[r].info.body.files = <<MdFile>>
    /\ req[1].code = 200
    /\ req[2].code = 500 /\ req[2].msg = "UNIQUE constraint failed"
    /\ Cardinality({ f \in files : f.relative_path = MdPath }) = 1

(***************************************************************************)
(* C34: the sources of an answer                                           *)
(***************************************************************************)
\* the query in slot r was answered by the LLM
QueryAnswered(q) == q.kind = "query" /\ q.pc = "done" /\ q.code = 200 /\ q.msg = "answer"

\* C34: the sources returned by a query and stored on its assistant message are
\* exactly the chunks given to the LLM as context: each source names a Chunk row that
\* was hydrated and put in the context, also when the index returned an id without a
\* Chunk row
C34_SourcesAreContext ==
    /\ \A r \in Slots :
          QueryAnswered(req[r]) =>
              /\ ChunkIds(req[r].info.sources) = ChunkIds(req[r].info.context)
              /\ \A k \in 1..Len(req[r].info.sources) :
                    \E c \in chunks : c.id = req[r].info.sources[k].chunk_id
    /\ \A m \in messages :
          m.role = "assistant" =>
              \A k \in 1..Len(m.sources) : \E c \in chunks : c.id = m.sources[k].chunk_id

(***************************************************************************)
(* C35: the conversation id of a response                                  *)
(***************************************************************************)
\* the query in slot r, sent without conversation_id, is answered 200 in this step
AnonymousQueryAnswered(r) ==
    /\ req[r].kind = "query" /\ req[r].pc # "done"
    /\ req[r].body.conversation_id = Undefined
    /\ req'[r].pc = "done" /\ req'[r].code = 200

\* C35: when a query sent without conversation_id is answered successfully, the
\* zero-match answer included, the conversation_id of the response names a
\* Conversation row that is in the store at that moment
C35_ReturnedConversationExists ==
    [][\A r \in Slots :
          AnonymousQueryAnswered(r) =>
              \E c \in conversations' : c.id = req'[r].info.conversationId]_vars

(***************************************************************************)
(* C36: the 'No new files to index' result                                 *)
(***************************************************************************)
\* the request in slot r was answered 'No new files to index'
NoNewFiles(q) == q.kind = "index" /\ q.pc = "done" /\ q.code = 200 /\ q.msg = "No new files to index"

\* the project row of the request
ProjectOf(q) == CHOOSE p \in projects : p.id = q.info.projectId

\* rows and vectors as the request found them, and the file count too
StoreAsFound(q) ==
    /\ files = q.info.pre.files
    /\ chunks = q.info.pre.chunks
    /\ vectors = q.info.pre.vectors
    /\ ProjectOf(q).file_count = q.info.pre.file_count

\* the counterexample: in every mode the request that is answered 'No new files to
\* index' has deleted and added no File row, Chunk row or vector and left file_count
\* as it was
C36_NoNewFilesNoChange ==
    \A r \in Slots : NoNewFiles(req[r]) => StoreAsFound(req[r]) /\ ProjectOf(req[r]).status = "ready"

\* C36: a request answered 'No new files to index' has added no File row, Chunk row
\* or vector and has set the status to ready. In append mode it has deleted none
\* either and left file_count unchanged. In force mode and in flagless mode on a
\* stale project it has deleted the project's File and Chunk rows, reset file_count
\* to 0 and deleted the vectors of those chunks, except those of a failed delete
\* batch. For a new project it has created the Project row, with file_count 0.
C36_NoNewFilesByMode ==
    \A r \in Slots :
        NoNewFiles(req[r]) =>
            LET q == req[r]
                id == q.info.projectId
            IN  /\ files \subseteq q.info.pre.files
                /\ chunks \subseteq q.info.pre.chunks
                /\ vectors \subseteq q.info.pre.vectors
                /\ ProjectOf(q).status = "ready"
                /\ q.info.mode \in {"new", "append", "force", "stale"}
                /\ q.info.mode = "append" => StoreAsFound(q)
                /\ q.info.mode \in {"force", "stale"} =>
                      /\ files = q.info.pre.files \ ProjectRows(q.info.pre.files, id)
                      /\ chunks = q.info.pre.chunks \ ProjectRows(q.info.pre.chunks, id)
                      /\ ProjectOf(q).file_count = 0
                      /\ q.info.deleteErrors = 0 =>
                            vectors = { v \in q.info.pre.vectors :
                                          ~\E c \in ProjectRows(q.info.pre.chunks, id) : c.id = v.id }
                /\ q.info.mode = "new" =>
                      /\ StoreAsFound(q)
                      /\ ProjectOf(q).file_count = 0

\* an append request whose only eligible file was in the project already
C36_Witness ==
    \E r \in Slots :
        /\ NoNewFiles(req[r])
        /\ req[r].info.mode = "append"
        /\ req[r].info.skipped # {}
        /\ files # {} /\ chunks # {} /\ vectors # {}
        /\ ProjectOf(req[r]).file_count > 0

(***************************************************************************)
(* C37: file_count and the File rows                                       *)
(***************************************************************************)
\* the number of File rows of a project among rows
FileRowCount(rows, id) == Cardinality(ProjectRows(rows, id))

\* the project a request was sent for
ProjectByPath(body) == { p \in projects : p.path = body.project_path }

\* the counterexample: after every index request answered 200, file_count equals the
\* number of File rows of the project
C37_FileCountIsRowCount ==
    \A r \in Slots :
        (req[r].kind = "index" /\ req[r].pc = "done" /\ req[r].code = 200) =>
            \A p \in ProjectByPath(req[r].info.body) : p.file_count = FileRowCount(files, p.id)

\* C37: with requests run one at a time, after a new, force or stale flagless index
\* request answered 200 file_count equals the number of File rows of the project;
\* an append request answered 200 raises file_count by the number of File rows it
\* added, so that the difference between the two is what the request found; the
\* recently-indexed answer changes neither
C37_FileCountFollowsRows ==
    /\ [](\A r \in Slots :
            (req[r].kind = "index" /\ req[r].pc = "done" /\ req[r].code = 200) =>
                \A p \in ProjectByPath(req[r].info.body) :
                    /\ req[r].info.mode \in {"new", "force", "stale"} =>
                          p.file_count = FileRowCount(files, p.id)
                    /\ req[r].info.mode = "append" =>
                          /\ p.file_count - req[r].info.pre.file_count
                                = FileRowCount(files, p.id) - FileRowCount(req[r].info.pre.files, p.id)
                          /\ p.file_count - req[r].info.pre.file_count = req[r].info.processed)
    /\ [][\A r \in Slots :
            (req[r].pc # "done" /\ req'[r].pc = "done" /\ req'[r].kind = "index" /\ req'[r].info.mode = "recent") =>
                UNCHANGED <<projects, files>>]_vars

\* an append answered 200 on a project whose first run stored a file and then failed:
\* one file added, file_count 1, two File rows
C37_Witness ==
    \E r \in Slots :
        /\ IndexAnswered(req[r], {"append"})
        /\ req[r].code = 200
        /\ req[r].info.processed = 1
        /\ FileCountOf(projects, req[r].info.projectId) = {1}
        /\ FileRowCount(files, req[r].info.projectId) = 2

(***************************************************************************)
(* C38: append and force together                                          *)
(***************************************************************************)
\* the body parses, names a path and files, and sets both append and force
BothFlags(body) ==
    /\ body # Unparseable
    /\ body.given = {"project_path", "files"}
    /\ body.project_path # <<>>
    /\ Len(body.files) > 0
    /\ body.append = TRUE
    /\ body.force = TRUE

\* a request with both flags arrives in this step for a project that exists
BothFlagsStarts(r) ==
    /\ nreq' = nreq + 1
    /\ req'[r].kind = "index"
    /\ BothFlags(StartedBody(req'[r]))
    /\ \E p \in projects : p.path = StartedBody(req'[r]).project_path

\* a run with both flags on a project that existed is in progress
BothFlagsRunning(q) ==
    /\ IndexRunning(q, {"new", "append", "stale", "force"})
    /\ BothFlags(q.body)
    /\ q.mode # "new"

\* C38: an index request for an existing project with append = true and force = true
\* runs as an append: no step of it deletes a vector, a File row or a Chunk row,
\* files whose path is present are skipped, and file_count is raised by the number
\* of files added
C38_AppendBeforeForce ==
    [][\A r \in Slots :
          /\ BothFlagsStarts(r) =>
                /\ req'[r].pc = "append_select"
                /\ req'[r].mode = "append"
                /\ UNCHANGED <<dbVars, vectors>>
          /\ BothFlagsRunning(req[r]) =>
                /\ req[r].mode = "append"
                /\ AppendStepOk(req[r], req'[r])]_vars

\* a request with both flags that skipped a file already present and added another
C38_Witness ==
    \E r \in Slots :
        /\ IndexAnswered(req[r], {"append"})
        /\ req[r].code = 200
        /\ req[r].info.body.force = TRUE
        /\ req[r].info.body.append = TRUE
        /\ req[r].info.skipped # {}
        /\ req[r].info.processed = 1
        /\ req[r].info.pre.files # {}
        /\ req[r].info.pre.files \subseteq files
        /\ FileCountOf(projects, req[r].info.projectId) = {req[r].info.pre.file_count + 1}

(***************************************************************************)
(* C39: every chunk brings a new line                                      *)
(***************************************************************************)
\* the end lines of cs go up from chunk to chunk
EndLinesRise(cs) == \A k \in 1..(Len(cs) - 1) : cs[k].end_line < cs[k + 1].end_line

\* C39: in the chunks chunkFile returns for one file every chunk after the first ends
\* at a later line than the chunk before it, so that no chunk holds only lines
\* carried over from its predecessor
C39_EndLinesRise == cpc \in {"chunked", "read"} => EndLinesRise(cchunks)

(***************************************************************************)
(* C40: a query that ends in an error                                      *)
(***************************************************************************)
\* the query in slot r went past validation and was answered with an error
QueryFailed(q) == q.kind = "query" /\ q.pc = "done" /\ q.code >= 400 /\ q.info.mode = "query"

\* the query in slot r is running
QueryRunning(q) == q.kind = "query" /\ q.pc \notin {"idle", "done"}

\* C40: a query that ends in an error response has created no Conversation row and
\* no Message row and has changed none: the conversation id it made for a request
\* without conversation_id names no row, the step that answers with the error writes
\* nothing, and messages and existing conversations are written only by the step
\* that answers 200
C40_FailedQueryWritesNothing ==
    /\ [](\A r \in Slots :
            (QueryFailed(req[r]) /\ req[r].info.body.conversation_id = Undefined) =>
                ~\E c \in conversations : c.id = req[r].info.conversationId)
    /\ [][\A r \in Slots :
            (QueryRunning(req[r]) /\ req'[r].pc = "done" /\ req'[r].code >= 400) =>
                UNCHANGED <<conversations, messages>>]_vars
    /\ [][\A r \in Slots :
            (QueryRunning(req[r]) /\ (messages' # messages \/ ~(conversations \subseteq conversations'))) =>
                (req'[r].pc = "done" /\ req'[r].code = 200)]_vars

====
